---- MODULE Spec2Model ----
(***************************************************************************)
(* Identity synchronisation and tenant authorisation of the HRMS backend:  *)
(*   - AuthService.syncClerkUserToDatabase (src/services/auth.service.ts), *)
(*     run by concurrent webhook deliveries against the shared User, Role  *)
(*     and Organization tables and their unique indexes;                    *)
(*   - validateTenantAccess and ensureResourceBelongsToTenant              *)
(*     (src/middlewares/tenant.middleware.ts), run per request.            *)
(* Every await of the source is one step of a process; the synchronous     *)
(* code between two awaits belongs to the step of the earlier await.       *)
(***************************************************************************)
EXTENDS Integers, Sequences, FiniteSets, TLC

\* ------------------------------------------------------------------ bounds

\* user.created deliveries started in one behaviour.
MaxDeliveries == 3
\* Requests started at the authorization gate in one behaviour.
MaxRequests == 2

\* The webhook deliveries being handled concurrently.
Procs == {"d1", "d2"}
\* The requests in flight at the gate.
Reqs == {"r1"}

\* ------------------------------------------------------------ value domains

\* External subject identifiers (clerkUser.id).
Subjects == {"ext_1", "ext_2"}
\* Organizations that exist in the directory, and one identifier that does not.
DirectoryOrgs == {"org_1", "org_2"}
UnknownOrg == "org_x"
\* The organization the administrative updates of a behaviour act on.
UpdatedOrgs == {"org_1"}
\* Candidates generateUniqueEmployeeCode can draw (prefix + time digits + random digits).
EmployeeCodes == {"EMP000001001", "EMP000001002"}

\* Error messages of syncClerkUserToDatabase and the data store's unique-violation code.
ErrEmailRequired == "Email is required for user creation"
ErrOrgContextRequired == "Organization context is required"
ErrOrgNotFoundOrInactive == "Organization not found or is inactive"
ErrP2002 == "P2002 unique constraint failed"

NoDate == -1

VARIABLES
    now,        \* the clock, in seconds
    orgActive,  \* Organization.isActive of every organization of the directory
    users,      \* the User table: a set of rows
    roles,      \* the Role table: a set of rows
    pc,         \* where each delivery's syncClerkUserToDatabase call stands
    evt,        \* the clerkUser each delivery carries
    loc,        \* the call's locals: organization, employeeCode, role
    outcome,    \* what the last call of each process returned or threw
    delivered,  \* deliveries started so far
    gpc,        \* where each request stands in the middleware chain
    greq,       \* the request: its Authorization token and its organization identifiers
    decoded,    \* validateTenantAccess's local: the claims verifyToken returned
    organization, \* validateTenantAccess's local: the row its lookup read
    reqUser,    \* req.user, the identity attached to the request
    resp,       \* the response sent, if any
    nextCalls,  \* the middlewares of the chain that called next()
    gstart,     \* the clock and the directory's flags when the request entered the gate
    started,    \* requests started so far
    admittedOrgs, \* organizations some earlier request was admitted for
    env,        \* process.env: the configuration the process was started with
    running,    \* whether the start of the process got past its configuration checks
    credential, \* the credential last issued, and what was done to it since
    verdict,    \* what the last verifyToken call returned or threw
    whVerdict   \* what the last check of a webhook envelope returned

provVars == <<users, roles, pc, evt, loc, outcome, delivered>>
gateVars == <<gpc, greq, decoded, organization, reqUser, resp, nextCalls, gstart, started,
              admittedOrgs>>
bootVars == <<env, running, credential, verdict, whVerdict>>
vars == <<now, orgActive, provVars, gateVars, bootVars>>

\* ------------------------------------------------------ the external record

\* The email and phone shapes an external user record arrives with.
EmailConfigs ==
    { [emailAddresses |-> <<>>, primaryEmailAddressId |-> ""],
      [emailAddresses |-> <<[id |-> "em_1", emailAddress |-> "a@x.com"]>>,
       primaryEmailAddressId |-> "em_1"],
      [emailAddresses |-> <<[id |-> "em_1", emailAddress |-> "a@x.com"],
                            [id |-> "em_2", emailAddress |-> "b@x.com"]>>,
       primaryEmailAddressId |-> "em_2"] }

\* phoneNumbers of each subject's external record.
PhoneNumbers(s) == IF s = "ext_1" THEN <<[phoneNumber |-> "555"]>> ELSE <<>>

\* publicMetadata.organizationId; "" stands for an absent (falsy) value.
MetadataOrgs == {"", "org_1", UnknownOrg}

ClerkUsers ==
    { [id |-> s,
       emailAddresses |-> e.emailAddresses,
       primaryEmailAddressId |-> e.primaryEmailAddressId,
       firstName |-> "",
       lastName |-> "",
       phoneNumbers |-> PhoneNumbers(s),
       publicMetadata |-> [organizationId |-> o]]
      : s \in Subjects, e \in EmailConfigs, o \in MetadataOrgs }

NoClerkUser ==
    [id |-> "", emailAddresses |-> <<>>, primaryEmailAddressId |-> "",
     firstName |-> "", lastName |-> "", phoneNumbers |-> <<>>,
     publicMetadata |-> [organizationId |-> ""]]

\* a || b on strings: "" is the falsy value.
OrElse(a, b) == IF a # "" THEN a ELSE b

\* emailAddresses.find(e => e.id === primaryEmailId)?.emailAddress, "" when none.
FindPrimaryEmail(emailAddresses, primaryEmailId) ==
    LET hits == { i \in 1..Len(emailAddresses) : emailAddresses[i].id = primaryEmailId }
    IN  IF hits = {} THEN ""
        ELSE emailAddresses[CHOOSE i \in hits : \A j \in hits : i <= j].emailAddress

\* Faulty variant: a placeholder address is substituted when no email resolves.
extractClerkUserData_PlaceholderEmail(clerkUser) ==
    LET emailAddresses == clerkUser.emailAddresses
        phoneNumbers == clerkUser.phoneNumbers
        email == OrElse(FindPrimaryEmail(emailAddresses, clerkUser.primaryEmailAddressId),
                        OrElse(IF Len(emailAddresses) > 0
                               THEN emailAddresses[1].emailAddress ELSE "", "none@x.com"))
    IN  [email |-> email,
         firstName |-> OrElse(clerkUser.firstName, "User"),
         lastName |-> OrElse(clerkUser.lastName, ""),
         phone |-> OrElse(IF Len(phoneNumbers) > 0 THEN phoneNumbers[1].phoneNumber ELSE "", "")]

extractClerkUserData(clerkUser) ==
    LET emailAddresses == clerkUser.emailAddresses
        phoneNumbers == clerkUser.phoneNumbers
        email == OrElse(FindPrimaryEmail(emailAddresses, clerkUser.primaryEmailAddressId),
                        OrElse(IF Len(emailAddresses) > 0
                               THEN emailAddresses[1].emailAddress ELSE "", ""))
    IN  [email |-> email,
         firstName |-> OrElse(clerkUser.firstName, "User"),
         lastName |-> OrElse(clerkUser.lastName, ""),
         phone |-> OrElse(IF Len(phoneNumbers) > 0 THEN phoneNumbers[1].phoneNumber ELSE "", "")]

\* Faulty variant: a default tenant is substituted when the metadata names no organization.
extractOrganizationIdFromClerk_DefaultTenant(clerkUser) ==
    OrElse(clerkUser.publicMetadata.organizationId, "org_1")

\* publicMetadata.organizationId || null ("" stands for null).
extractOrganizationIdFromClerk(clerkUser) ==
    OrElse(clerkUser.publicMetadata.organizationId, "")

\* ------------------------------------------------------------ the data store

\* Faulty variant: the existence lookup compares the wrong column.
FindUserByClerkId_WrongColumn(clerkId) == { u \in users : u.email = clerkId }

\* Faulty variant: the lookup passes over terminated rows.
FindUserByClerkId_ActiveOnly(clerkId) ==
    { u \in users : u.clerkId = clerkId /\ u.status # "TERMINATED" }

\* prisma.user.findUnique({ where: { clerkId } }): the set of rows found (at most one).
FindUserByClerkId(clerkId) == { u \in users : u.clerkId = clerkId }

\* prisma.user.findUnique({ where: { employeeCode } }).
FindUserByEmployeeCode(code) == { u \in users : u.employeeCode = code }

\* Faulty variant: the lookup drops the isActive filter.
FindActiveOrganization_AnyStatus(id) == { o \in DirectoryOrgs : o = id }

\* prisma.organization.findUnique({ where: { id, isActive: true } }).
FindActiveOrganization(id) ==
    { o \in DirectoryOrgs : o = id /\ orgActive[o] }

\* Faulty variant: the lookup asks for the role's display name.
FindEmployeeRole_ByDisplayName(organizationId) ==
    { r \in roles : r.organizationId = organizationId /\ r.name = "Employee" /\ r.isActive }

\* Faulty variant: the lookup does not filter on active roles.
FindEmployeeRole_AnyStatus(organizationId) ==
    { r \in roles : r.organizationId = organizationId /\ r.name = "employee" }

\* prisma.role.findFirst({ where: { organizationId, name: 'employee', isActive: true } }).
FindEmployeeRole(organizationId) ==
    { r \in roles : r.organizationId = organizationId /\ r.name = "employee" /\ r.isActive }

\* The unique indexes of "Role" an insert of row would violate.
RoleUniqueViolations(row) ==
    IF \E r \in roles : r.organizationId = row.organizationId /\ r.name = row.name
    THEN {"Role_organizationId_name_key"} ELSE {}

\* Faulty variant: the User table without its unique index on clerkId.
UserUniqueViolations_NoClerkIdKey(row) ==
    (IF \E u \in users : u.employeeCode = row.employeeCode
     THEN {"User_employeeCode_key"} ELSE {})
    \cup (IF \E u \in users : u.email = row.email THEN {"User_email_key"} ELSE {})

\* The unique indexes of "User" an insert of row would violate.
UserUniqueViolations(row) ==
    (IF \E u \in users : u.clerkId = row.clerkId THEN {"User_clerkId_key"} ELSE {})
    \cup (IF \E u \in users : u.employeeCode = row.employeeCode
          THEN {"User_employeeCode_key"} ELSE {})
    \cup (IF \E u \in users : u.email = row.email THEN {"User_email_key"} ELSE {})
    \cup (IF \E u \in users : u.organizationId = row.organizationId
                              /\ u.employeeCode = row.employeeCode
          THEN {"User_organizationId_employeeCode_key"} ELSE {})
    \cup (IF \E u \in users : u.organizationId = row.organizationId /\ u.email = row.email
          THEN {"User_organizationId_email_key"} ELSE {})

\* ---------------------------------------------------------------- outcomes

NoOutcome == [kind |-> "none", error |-> "", target |-> {}, ret |-> {}]
Returned(rows) == [kind |-> "ok", error |-> "", target |-> {}, ret |-> rows]
Thrown(msg) == [kind |-> "error", error |-> msg, target |-> {}, ret |-> {}]
ThrownUnique(indexes) == [kind |-> "error", error |-> ErrP2002, target |-> indexes, ret |-> {}]

NoLocals == [organizationId |-> "", employeeCode |-> "", roleId |-> 0]

\* The call of process p ends: its locals and its event go out of scope.
Finish(p, result) ==
    /\ pc' = [pc EXCEPT ![p] = "idle"]
    /\ outcome' = [outcome EXCEPT ![p] = result]
    /\ loc' = [loc EXCEPT ![p] = NoLocals]
    /\ evt' = [evt EXCEPT ![p] = NoClerkUser]

\* ------------------------------------------------------ credentials and requests

\* generateToken's horizon: 60 * 60 * 24 * 7 seconds.
TOKEN_TTL == 604800

\* The instants the clock takes.
ClockInstants == {0, TOKEN_TTL - 1, TOKEN_TTL, TOKEN_TTL + 1}

\* organizationId claims of the credentials presented; "" stands for an absent claim.
ClaimOrgs == {"", "org_1", UnknownOrg}

JWTPayloads ==
    { [id |-> "u_1", clerkUid |-> "ext_1", organizationId |-> o, email |-> "a@x.com",
       firstName |-> "User", lastName |-> "", role |-> "employee", exp |-> 0 + TOKEN_TTL]
      : o \in ClaimOrgs }

NoPayload ==
    [id |-> "", clerkUid |-> "", organizationId |-> "", email |-> "",
     firstName |-> "", lastName |-> "", role |-> "", exp |-> 0]

\* No Authorization header, or one that leaves an empty token.
NoToken == [sig |-> "none", payload |-> NoPayload]

\* A token's signature is the secret's ("good") or not, malformed tokens included ("bad").
Tokens == { [sig |-> g, payload |-> pl] : g \in {"good", "bad"}, pl \in JWTPayloads }

\* The organization identifier a request supplies in each place; "" when it supplies none.
ResourceOrgs == {"", "org_1", "org_2"}

Requests ==
    { [token |-> t, params |-> a, query |-> q, body |-> b]
      : t \in Tokens \cup {NoToken}, a \in ResourceOrgs, q \in ResourceOrgs, b \in ResourceOrgs }

NoRequest == [token |-> NoToken, params |-> "", query |-> "", body |-> ""]

NoResponse == [status |-> 0, message |-> ""]
Response(status, message) == [status |-> status, message |-> message]

\* Faulty variant: the signature is not checked.
verifyToken_NoSignatureCheck(token, t) ==
    IF token.sig # "none" /\ ~(t >= token.payload.exp) THEN {token.payload} ELSE {}

\* verifyToken(token) at clock t: jwt.verify checks the signature and rejects once
\* t >= exp; then decoded.exp < t throws. The set of claims returned, {} when it throws.
verifyToken(token, t) ==
    IF token.sig = "good" /\ ~(t >= token.payload.exp) /\ ~(token.payload.exp < t)
    THEN {token.payload} ELSE {}

\* The messages verifyToken's catch wraps: jwt.verify's, and its own expiry check's.
ErrInvalidSignature == "Token verification failed: invalid signature"
ErrJwtExpired == "Token verification failed: jwt expired"
ErrTokenExpired == "Token verification failed: Token expired"

\* Faulty variant: the expiry is checked before the signature.
verifyTokenError_ExpiryFirst(token, t) ==
    IF t >= token.payload.exp THEN ErrJwtExpired
    ELSE IF token.sig # "good" THEN ErrInvalidSignature
    ELSE IF token.payload.exp < t THEN ErrTokenExpired
    ELSE ""

\* The message of the error verifyToken(token) throws at clock t, "" when it
\* returns: jwt.verify checks the signature, then the expiry; then the code's own check.
verifyTokenError(token, t) ==
    IF token.sig # "good" THEN ErrInvalidSignature
    ELSE IF t >= token.payload.exp THEN ErrJwtExpired
    ELSE IF token.payload.exp < t THEN ErrTokenExpired
    ELSE ""

\* The claim sets handed to generateToken: Omit<JWTPayload, 'exp'>.
IssuePayloads ==
    { [id |-> "u_1", clerkUid |-> "ext_1", organizationId |-> o, email |-> "a@x.com",
       firstName |-> "User", lastName |-> "", role |-> "employee"]
      : o \in ClaimOrgs }

\* Faulty variant: the organization identifier is not carried into the token.
generateToken_DropsOrganization(payload, t) ==
    [sig |-> "good",
     payload |-> [f \in (DOMAIN payload) \cup {"exp", "iat"} |->
                     IF f = "exp" THEN t + TOKEN_TTL
                     ELSE IF f = "iat" THEN t
                     ELSE IF f = "organizationId" THEN ""
                     ELSE payload[f]]]

\* Faulty variant: the horizon is one second longer.
generateToken_LongerHorizon(payload, t) ==
    [sig |-> "good",
     payload |-> [f \in (DOMAIN payload) \cup {"exp", "iat"} |->
                     IF f = "exp" THEN t + TOKEN_TTL + 1
                     ELSE IF f = "iat" THEN t
                     ELSE payload[f]]]

\* generateToken(payload) at clock t: the payload with exp = t + 7 days, signed
\* by jwt.sign, which stamps the issue instant iat on an object payload.
generateToken(payload, t) ==
    [sig |-> "good",
     payload |-> [f \in (DOMAIN payload) \cup {"exp", "iat"} |->
                     IF f = "exp" THEN t + TOKEN_TTL
                     ELSE IF f = "iat" THEN t
                     ELSE payload[f]]]

\* ------------------------------------------------------------ configuration

\* process.env: the three settings, "" when a setting is absent.
Environments ==
    { [DATABASE_URL |-> d, CLERK_WEBHOOK_SECRET |-> w, JWT_SECRET_KEY |-> j]
      : d \in {"", "postgres://db"}, w \in {"", "whsec_1"}, j \in {"", "jwt_key_1"} }

\* The environment with every setting present.
FullEnv ==
    [DATABASE_URL |-> "postgres://db", CLERK_WEBHOOK_SECRET |-> "whsec_1",
     JWT_SECRET_KEY |-> "jwt_key_1"]

\* required(name): the value, or nothing when it throws 'Missing environment variable'.
required(e, name) == IF e[name] = "" THEN {} ELSE {e[name]}

\* Whether the evaluation of getEnv gets past its required(...) calls.
GetEnvLoads(e) ==
    /\ required(e, "DATABASE_URL") # {}
    /\ required(e, "CLERK_WEBHOOK_SECRET") # {}

\* const JWT_SECRET = process.env.JWT_SECRET_KEY || "default_secret".
JWT_SECRET == OrElse(env.JWT_SECRET_KEY, "default_secret")

NoVerdict == [at |-> -1, credential |-> {}, claims |-> {}, error |-> ""]

\* ------------------------------------------------------ webhook envelopes

\* The svix-signature header: absent, the signature of these bytes, timestamp and
\* event id under the shared secret, or any other value.
SvixSignatures == {"", "v1,good", "v1,bad"}

\* The transport headers of a webhook delivery; "" when a header is absent.
Envelopes ==
    { [svixId |-> i, svixTimestamp |-> t, svixSignature |-> g]
      : i \in {"", "msg_1", "msg_2"}, t \in {"", "1700000000"}, g \in SvixSignatures }

NoEnvelope == [svixId |-> "", svixTimestamp |-> "", svixSignature |-> ""]

\* Faulty variant: a missing event id or timestamp header is not checked.
verifyWebhookSignature_SignatureHeaderOnly(webhookSecret, headers) ==
    IF webhookSecret = "" THEN [accepted |-> FALSE, verified |-> FALSE]
    ELSE IF headers.svixSignature = "" THEN [accepted |-> FALSE, verified |-> FALSE]
    ELSE [accepted |-> (headers.svixSignature = "v1,good"), verified |-> TRUE]

\* verifyWebhookSignature(payload, headers) with the shared secret webhookSecret:
\* whether it returns true, and whether it got as far as wh.verify.
verifyWebhookSignature(webhookSecret, headers) ==
    IF webhookSecret = "" THEN [accepted |-> FALSE, verified |-> FALSE]
    ELSE IF headers.svixId = "" \/ headers.svixTimestamp = "" \/ headers.svixSignature = ""
    THEN [accepted |-> FALSE, verified |-> FALSE]
    ELSE [accepted |-> (headers.svixSignature = "v1,good"), verified |-> TRUE]

NoWhVerdict == [headers |-> NoEnvelope, secret |-> "", accepted |-> FALSE, verified |-> FALSE,
                called |-> FALSE]

\* prisma.organization.findUnique({ where: { id }, select: { id, isActive, name } }).
FindOrganization(id) ==
    { [id |-> o, isActive |-> orgActive[o]] : o \in { x \in DirectoryOrgs : x = id } }

\* ------------------------------------------------------------------- Init

\* Everything but the Role table at the start.
InitButRoles ==
    /\ now = 0
    /\ orgActive = [o \in DirectoryOrgs |-> TRUE]
    /\ users = {}
    /\ pc = [p \in Procs |-> "idle"]
    /\ evt = [p \in Procs |-> NoClerkUser]
    /\ loc = [p \in Procs |-> NoLocals]
    /\ outcome = [p \in Procs |-> NoOutcome]
    /\ delivered = 0
    /\ gpc = [r \in Reqs |-> "idle"]
    /\ greq = [r \in Reqs |-> NoRequest]
    /\ decoded = [r \in Reqs |-> {}]
    /\ organization = [r \in Reqs |-> {}]
    /\ reqUser = [r \in Reqs |-> {}]
    /\ resp = [r \in Reqs |-> NoResponse]
    /\ nextCalls = [r \in Reqs |-> {}]
    /\ gstart = [r \in Reqs |-> [at |-> 0, orgActive |-> [o \in DirectoryOrgs |-> TRUE]]]
    /\ started = 0
    /\ admittedOrgs = {}
    /\ env = FullEnv
    /\ running = TRUE
    /\ credential = {}
    /\ verdict = NoVerdict
    /\ whVerdict = NoWhVerdict

Init ==
    /\ roles = {}
    /\ InitButRoles

\* The Role tables a deployment's first delivery can meet: empty, or holding the
\* organization's "employee" role with its isActive column set either way.
StoredRoles ==
    { {} } \cup
    { {[id |-> 1, organizationId |-> "org_1", name |-> "employee", level |-> 10,
        isSystem |-> TRUE, isActive |-> a]} : a \in BOOLEAN }

InitStoredRoles ==
    /\ roles \in StoredRoles
    /\ InitButRoles

\* ------------------------------------------- administrative organization update

\* An administrative update of an organization sets its active flag.
SetOrganizationActive(o, b) ==
    /\ orgActive[o] # b
    /\ orgActive' = [orgActive EXCEPT ![o] = b]
    /\ UNCHANGED <<now, provVars, gateVars, bootVars>>

\* ------------------------------------------------- syncClerkUserToDatabase

\* case 'user.created': the controller awaits AuthService.syncClerkUserToDatabase(data).
DeliverCreated(p, clerkUser) ==
    /\ pc[p] = "idle"
    /\ delivered < MaxDeliveries
    /\ delivered' = delivered + 1
    /\ pc' = [pc EXCEPT ![p] = "findUser"]
    /\ evt' = [evt EXCEPT ![p] = clerkUser]
    /\ outcome' = [outcome EXCEPT ![p] = NoOutcome]
    /\ UNCHANGED <<now, orgActive, users, roles, loc, gateVars, env, running, credential,
                   verdict>>

\* A user.created delivery of an accepted envelope reaches
\* syncClerkUserToDatabase(clerkUser).
Deliver(p, clerkUser) == DeliverCreated(p, clerkUser) /\ UNCHANGED whVerdict

\* await prisma.user.findUnique by clerkId; then the extraction and the two checks.
SyncFindUser(p) ==
    /\ pc[p] = "findUser"
    /\ LET existingUser == FindUserByClerkId(evt[p].id)
           data == extractClerkUserData(evt[p])
           organizationId == extractOrganizationIdFromClerk(evt[p])
       IN  IF existingUser # {}
           THEN Finish(p, Returned(existingUser))
           ELSE IF data.email = ""
           THEN Finish(p, Thrown(ErrEmailRequired))
           ELSE IF organizationId = ""
           THEN Finish(p, Thrown(ErrOrgContextRequired))
           ELSE /\ pc' = [pc EXCEPT ![p] = "findOrg"]
                /\ loc' = [loc EXCEPT ![p].organizationId = organizationId]
                /\ UNCHANGED <<evt, outcome>>
    /\ UNCHANGED <<now, orgActive, users, roles, delivered, gateVars, bootVars>>

\* Faulty variant: the default role is inserted before the organization is checked.
SyncFindOrganization_RoleFirst(p) ==
    /\ pc[p] = "findOrg"
    /\ roles' = IF RoleUniqueViolations([organizationId |-> loc[p].organizationId,
                                         name |-> "employee"]) = {}
                THEN roles \cup {[id |-> Cardinality(roles) + 1,
                                  organizationId |-> loc[p].organizationId,
                                  name |-> "employee", level |-> 10,
                                  isSystem |-> TRUE, isActive |-> TRUE]}
                ELSE roles
    /\ IF FindActiveOrganization(loc[p].organizationId) = {}
       THEN Finish(p, Thrown(ErrOrgNotFoundOrInactive))
       ELSE /\ pc' = [pc EXCEPT ![p] = "genCode"]
            /\ UNCHANGED <<evt, loc, outcome>>
    /\ UNCHANGED <<now, orgActive, users, delivered, gateVars, bootVars>>

\* await prisma.organization.findUnique({ id, isActive: true }).
SyncFindOrganization(p) ==
    /\ pc[p] = "findOrg"
    /\ IF FindActiveOrganization(loc[p].organizationId) = {}
       THEN Finish(p, Thrown(ErrOrgNotFoundOrInactive))
       ELSE /\ pc' = [pc EXCEPT ![p] = "genCode"]
            /\ UNCHANGED <<evt, loc, outcome>>
    /\ UNCHANGED <<now, orgActive, users, roles, delivered, gateVars, bootVars>>

\* generateUniqueEmployeeCode: one candidate, one lookup; a taken candidate recurses:
\* the call stays in generation, holding the candidate it has just drawn.
generateUniqueEmployeeCode(p, code) ==
    /\ pc[p] = "genCode"
    /\ loc' = [loc EXCEPT ![p].employeeCode = code]
    /\ IF FindUserByEmployeeCode(code) # {}
       THEN UNCHANGED pc
       ELSE pc' = [pc EXCEPT ![p] = "findRole"]
    /\ UNCHANGED <<now, orgActive, users, roles, evt, outcome, delivered, gateVars, bootVars>>

\* await prisma.role.findFirst for the organization's active "employee" role.
SyncFindRole(p) ==
    /\ pc[p] = "findRole"
    /\ LET role == FindEmployeeRole(loc[p].organizationId)
       IN  IF role # {}
           THEN /\ pc' = [pc EXCEPT ![p] = "createUser"]
                /\ loc' = [loc EXCEPT ![p].roleId = (CHOOSE r \in role : TRUE).id]
           ELSE /\ pc' = [pc EXCEPT ![p] = "createRole"]
                /\ UNCHANGED loc
    /\ UNCHANGED <<now, orgActive, users, roles, evt, outcome, delivered, gateVars, bootVars>>

NewRole(organizationId) ==
    [id |-> Cardinality(roles) + 1,
     organizationId |-> organizationId,
     name |-> "employee",
     level |-> 10,
     isSystem |-> TRUE,
     isActive |-> TRUE]

\* await prisma.role.create: the insert, or the unique violation it raises.
SyncCreateRole(p) ==
    /\ pc[p] = "createRole"
    /\ LET row == NewRole(loc[p].organizationId)
       IN  IF RoleUniqueViolations(row) # {}
           THEN /\ Finish(p, ThrownUnique(RoleUniqueViolations(row)))
                /\ UNCHANGED roles
           ELSE /\ roles' = roles \cup {row}
                /\ pc' = [pc EXCEPT ![p] = "createUser"]
                /\ loc' = [loc EXCEPT ![p].roleId = row.id]
                /\ UNCHANGED <<evt, outcome>>
    /\ UNCHANGED <<now, orgActive, users, delivered, gateVars, bootVars>>

\* Faulty variant: the row is marked phone-verified whether or not a phone came.
NewUser_PhoneAlwaysVerified(p) ==
    LET data == extractClerkUserData(evt[p])
    IN  [id |-> Cardinality(users) + 1,
         clerkId |-> evt[p].id,
         organizationId |-> loc[p].organizationId,
         roleId |-> loc[p].roleId,
         employeeCode |-> loc[p].employeeCode,
         email |-> data.email,
         firstName |-> data.firstName,
         lastName |-> data.lastName,
         phone |-> OrElse(data.phone, "null"),
         dateOfJoining |-> now,
         dateOfLeaving |-> NoDate,
         status |-> "ACTIVE",
         isEmailVerified |-> TRUE,
         isPhoneVerified |-> TRUE,
         updatedAt |-> now]

\* The row prisma.user.create is given.
NewUser(p) ==
    LET data == extractClerkUserData(evt[p])
    IN  [id |-> Cardinality(users) + 1,
         clerkId |-> evt[p].id,
         organizationId |-> loc[p].organizationId,
         roleId |-> loc[p].roleId,
         employeeCode |-> loc[p].employeeCode,
         email |-> data.email,
         firstName |-> data.firstName,
         lastName |-> data.lastName,
         phone |-> OrElse(data.phone, "null"),
         dateOfJoining |-> now,
         dateOfLeaving |-> NoDate,
         status |-> "ACTIVE",
         isEmailVerified |-> TRUE,
         isPhoneVerified |-> (data.phone # ""),
         updatedAt |-> now]

\* await prisma.user.create: the insert, or the unique violation it raises;
\* the catch block logs and rethrows.
SyncCreateUser(p) ==
    /\ pc[p] = "createUser"
    /\ LET row == NewUser(p)
       IN  IF UserUniqueViolations(row) # {}
           THEN /\ Finish(p, ThrownUnique(UserUniqueViolations(row)))
                /\ UNCHANGED users
           ELSE /\ users' = users \cup {row}
                /\ Finish(p, Returned({row}))
    /\ UNCHANGED <<now, orgActive, roles, delivered, gateVars, bootVars>>

NextProv ==
    \/ \E o \in UpdatedOrgs, b \in BOOLEAN : SetOrganizationActive(o, b)
    \/ \E p \in Procs, cu \in ClerkUsers : Deliver(p, cu)
    \/ \E p \in Procs : SyncFindUser(p)
    \/ \E p \in Procs : SyncFindOrganization(p)
    \/ \E p \in Procs, code \in EmployeeCodes : generateUniqueEmployeeCode(p, code)
    \/ \E p \in Procs : SyncFindRole(p)
    \/ \E p \in Procs : SyncCreateRole(p)
    \/ \E p \in Procs : SyncCreateUser(p)

SpecProv == Init /\ [][NextProv]_vars

\* Provisioning against a Role table that already holds rows.
NextStoredRoles ==
    \/ \E p \in Procs, cu \in ClerkUsers : Deliver(p, cu)
    \/ \E p \in Procs : SyncFindUser(p)
    \/ \E p \in Procs : SyncFindOrganization(p)
    \/ \E p \in Procs, code \in EmployeeCodes : generateUniqueEmployeeCode(p, code)
    \/ \E p \in Procs : SyncFindRole(p)
    \/ \E p \in Procs : SyncCreateRole(p)
    \/ \E p \in Procs : SyncCreateUser(p)

SpecStoredRoles == InitStoredRoles /\ [][NextStoredRoles]_vars

\* The steps of delivery p's call: each await of the call resumes once its
\* data-store operation has completed.
ProvStep(p) ==
    \/ SyncFindUser(p)
    \/ SyncFindOrganization(p)
    \/ \E code \in EmployeeCodes : generateUniqueEmployeeCode(p, code)
    \/ SyncFindRole(p)
    \/ SyncCreateRole(p)
    \/ SyncCreateUser(p)

\* SpecProv with every pending await of every call eventually resumed.
SpecProvFair == SpecProv /\ \A p \in Procs : WF_vars(ProvStep(p))

\* ------------------------------------------------------------------ the clock

AdvanceClock(t) ==
    /\ t \in ClockInstants
    /\ t > now
    /\ now' = t
    /\ UNCHANGED <<orgActive, provVars, gateVars, bootVars>>

\* ------------------------------------------------------ validateTenantAccess

Respond(r, status, message) ==
    /\ gpc' = [gpc EXCEPT ![r] = "responded"]
    /\ resp' = [resp EXCEPT ![r] = Response(status, message)]

\* Faulty variant: the response carries the caught error's message.
CatchResponse_LeaksMessage(message) == Response(401, message)

\* validateTenantAccess's catch: the caught error's message is logged, the response
\* is the same for every error.
CatchResponse(message) == Response(401, "Invalid or expired token")

\* A request enters the chain validateTenantAccess, ensureResourceBelongsToTenant,
\* handler. The synchronous head of validateTenantAccess runs: the token, verifyToken,
\* the organization claim; it ends at the await of the organization lookup.
validateTenantAccess(r, request) ==
    /\ gpc[r] \in {"idle", "responded", "handler"}
    /\ started < MaxRequests
    /\ started' = started + 1
    /\ greq' = [greq EXCEPT ![r] = request]
    /\ gstart' = [gstart EXCEPT ![r] = [at |-> now, orgActive |-> orgActive]]
    /\ organization' = [organization EXCEPT ![r] = {}]
    /\ reqUser' = [reqUser EXCEPT ![r] = {}]
    /\ nextCalls' = [nextCalls EXCEPT ![r] = {}]
    /\ LET token == request.token
           claims == verifyToken(token, now)
       IN  IF token.sig = "none"
           THEN /\ Respond(r, 401, "Authentication token required")
                /\ decoded' = [decoded EXCEPT ![r] = {}]
           ELSE IF claims = {}
           THEN /\ LET caught == CatchResponse(verifyTokenError(token, now))
                   IN  Respond(r, caught.status, caught.message)
                /\ decoded' = [decoded EXCEPT ![r] = {}]
           ELSE IF (CHOOSE c \in claims : TRUE).organizationId = ""
           THEN /\ Respond(r, 403, "Invalid token: missing organization context")
                /\ decoded' = [decoded EXCEPT ![r] = claims]
           ELSE /\ gpc' = [gpc EXCEPT ![r] = "orgLookup"]
                /\ resp' = [resp EXCEPT ![r] = NoResponse]
                /\ decoded' = [decoded EXCEPT ![r] = claims]
    /\ UNCHANGED <<now, orgActive, provVars, bootVars, admittedOrgs>>

\* Faulty variant: the decision lets a request through when the lookup found no row.
OrganizationAdmits_AdmitsMissing(found) == \A o \in found : o.isActive

\* Faulty variant: the decision checks that the organization exists, not that it is active.
OrganizationAdmits_IgnoresActive(found) == found # {}

\* Whether validateTenantAccess lets the request through on the row(s) its lookup read.
OrganizationAdmits(found) == found # {} /\ \A o \in found : o.isActive

\* req.user as validateTenantAccess builds it from the decoded claims.
AttachedUser(c) ==
    [id |-> c.id, clerkUid |-> c.clerkUid, organizationId |-> c.organizationId,
     email |-> c.email, firstName |-> c.firstName, lastName |-> c.lastName, role |-> c.role]

\* Faulty variant: the gate also reads the caller's User row and turns a terminated
\* user away.
validateTenantAccessLookup_ChecksUserStatus(r) ==
    /\ gpc[r] = "orgLookup"
    /\ LET c == CHOOSE c \in decoded[r] : TRUE
           found == FindOrganization(c.organizationId)
           terminated == \E u \in users : u.clerkId = c.clerkUid /\ u.status = "TERMINATED"
       IN  /\ organization' = [organization EXCEPT ![r] = found]
           /\ IF ~OrganizationAdmits(found) \/ terminated
              THEN /\ Respond(r, 403, "Organization is inactive or not found")
                   /\ UNCHANGED <<reqUser, nextCalls, admittedOrgs>>
              ELSE /\ reqUser' = [reqUser EXCEPT ![r] = {AttachedUser(c)}]
                   /\ nextCalls' = [nextCalls EXCEPT ![r] = {"validateTenantAccess"}]
                   /\ admittedOrgs' = admittedOrgs \cup {c.organizationId}
                   /\ gpc' = [gpc EXCEPT ![r] = "resource"]
                   /\ UNCHANGED resp
    /\ UNCHANGED <<now, orgActive, provVars, bootVars, greq, decoded, gstart, started>>

\* await prisma.organization.findUnique, the decision on it, req.user and next().
validateTenantAccessLookup(r) ==
    /\ gpc[r] = "orgLookup"
    /\ LET c == CHOOSE c \in decoded[r] : TRUE
           found == FindOrganization(c.organizationId)
       IN  /\ organization' = [organization EXCEPT ![r] = found]
           /\ IF ~OrganizationAdmits(found)
              THEN /\ Respond(r, 403, "Organization is inactive or not found")
                   /\ UNCHANGED <<reqUser, nextCalls, admittedOrgs>>
              ELSE /\ reqUser' = [reqUser EXCEPT ![r] = {AttachedUser(c)}]
                   /\ nextCalls' = [nextCalls EXCEPT ![r] = {"validateTenantAccess"}]
                   /\ admittedOrgs' = admittedOrgs \cup {c.organizationId}
                   /\ gpc' = [gpc EXCEPT ![r] = "resource"]
                   /\ UNCHANGED resp
    /\ UNCHANGED <<now, orgActive, provVars, bootVars, greq, decoded, gstart, started>>

\* ------------------------------------------- ensureResourceBelongsToTenant

\* req.params[field] || req.query[field] || (req.body && req.body[field]).
ResourceOrgId(request) == OrElse(request.params, OrElse(request.query, request.body))

\* Faulty variant: only the path parameter is compared.
ResourceDenied_ParamsOnly(request, userOrg) ==
    request.params # "" /\ request.params # userOrg

\* Whether the resource check rejects the request of a caller of organization userOrg.
ResourceDenied(request, userOrg) ==
    ResourceOrgId(request) # "" /\ ResourceOrgId(request) # userOrg

ensureResourceBelongsToTenant(r) ==
    /\ gpc[r] = "resource"
    /\ IF reqUser[r] = {}
       THEN Respond(r, 401, "Authentication required") /\ UNCHANGED nextCalls
       ELSE IF ResourceDenied(greq[r], (CHOOSE u \in reqUser[r] : TRUE).organizationId)
       THEN /\ Respond(r, 403, "Access denied: resource belongs to different organization")
            /\ UNCHANGED nextCalls
       ELSE /\ nextCalls' = [nextCalls EXCEPT ![r] = @ \cup {"ensureResourceBelongsToTenant"}]
            /\ gpc' = [gpc EXCEPT ![r] = "handler"]
            /\ UNCHANGED resp
    /\ UNCHANGED <<now, orgActive, provVars, bootVars, greq, decoded, organization, reqUser, gstart,
                   started, admittedOrgs>>

NextGate ==
    \/ \E o \in UpdatedOrgs, b \in BOOLEAN : SetOrganizationActive(o, b)
    \/ \E t \in ClockInstants : AdvanceClock(t)
    \/ \E r \in Reqs, request \in Requests : validateTenantAccess(r, request)
    \/ \E r \in Reqs : validateTenantAccessLookup(r)
    \/ \E r \in Reqs : ensureResourceBelongsToTenant(r)

SpecGate == Init /\ [][NextGate]_vars

\* ------------------------------------------- the gate when the data store fails

\* The error prisma.organization.findUnique rejects with when the data store cannot
\* be reached.
ErrDataStore == "P1001 can't reach database server"

\* What validateTenantAccess holds of its lookup when the lookup threw: no row, the
\* error.
LookupThrew == {[error |-> ErrDataStore]}

\* Faulty variant: an error of the lookup is logged and the request is passed on.
validateTenantAccessLookupThrows_FailsOpen(r) ==
    /\ gpc[r] = "orgLookup"
    /\ organization' = [organization EXCEPT ![r] = LookupThrew]
    /\ reqUser' = [reqUser EXCEPT ![r] = {AttachedUser(CHOOSE c \in decoded[r] : TRUE)}]
    /\ nextCalls' = [nextCalls EXCEPT ![r] = {"validateTenantAccess"}]
    /\ gpc' = [gpc EXCEPT ![r] = "resource"]
    /\ UNCHANGED <<now, orgActive, provVars, bootVars, greq, decoded, resp, gstart, started,
                   admittedOrgs>>

\* await prisma.organization.findUnique rejects: control passes to the catch block.
validateTenantAccessLookupThrows(r) ==
    /\ gpc[r] = "orgLookup"
    /\ organization' = [organization EXCEPT ![r] = LookupThrew]
    /\ LET caught == CatchResponse(ErrDataStore)
       IN  Respond(r, caught.status, caught.message)
    /\ UNCHANGED <<now, orgActive, provVars, bootVars, greq, decoded, reqUser, nextCalls,
                   gstart, started, admittedOrgs>>

NextGateFaults ==
    \/ \E o \in UpdatedOrgs, b \in BOOLEAN : SetOrganizationActive(o, b)
    \/ \E t \in ClockInstants : AdvanceClock(t)
    \/ \E r \in Reqs, request \in Requests : validateTenantAccess(r, request)
    \/ \E r \in Reqs : validateTenantAccessLookup(r)
    \/ \E r \in Reqs : validateTenantAccessLookupThrows(r)
    \/ \E r \in Reqs : ensureResourceBelongsToTenant(r)

SpecGateFaults == Init /\ [][NextGateFaults]_vars

\* ------------------------------------ user.updated, user.deleted, other types

\* The instant the clock moves to while webhook events are handled.
LaterInstants == {TOKEN_TTL}

\* The data store's error when the row an update names does not exist.
ErrP2025 == "P2025 record to update not found"

\* The controller skipped the update: the subject has no row.
Skipped == [kind |-> "skipped", error |-> "", target |-> {}, ret |-> {}]
\* The controller's default case: the event type is not handled.
Unhandled == [kind |-> "unhandled", error |-> "", target |-> {}, ret |-> {}]

\* Faulty variant: the update removes the row it names.
ReplaceRow_Drops(old, row) == users \ {old}

\* The User table after prisma.user.update has rewritten row old as row.
ReplaceRow(old, row) == (users \ {old}) \cup {row}

\* Faulty variant: an update is not checked against the unique indexes on email.
UserUpdateViolations_NoEmailKeys(old, row) == {}

\* The unique indexes of "User" that rewriting row old as row would violate; the
\* indexed columns an update of this module changes are the email's.
UserUpdateViolations(old, row) ==
    (IF \E u \in users \ {old} : u.email = row.email THEN {"User_email_key"} ELSE {})
    \cup (IF \E u \in users \ {old} :
                u.organizationId = row.organizationId /\ u.email = row.email
          THEN {"User_organizationId_email_key"} ELSE {})

\* case 'user.updated': the controller awaits AuthService.getUserByClerkId(data.id).
DeliverUpdated(p, clerkUser) ==
    /\ pc[p] = "idle"
    /\ delivered < MaxDeliveries
    /\ delivered' = delivered + 1
    /\ pc' = [pc EXCEPT ![p] = "getUser"]
    /\ evt' = [evt EXCEPT ![p] = clerkUser]
    /\ outcome' = [outcome EXCEPT ![p] = NoOutcome]
    /\ UNCHANGED <<now, orgActive, users, roles, loc, gateVars, env, running, credential,
                   verdict>>

\* Faulty variant: the controller calls the update without checking that a row exists.
getUserByClerkId_NoExistenceCheck(p) ==
    /\ pc[p] = "getUser"
    /\ pc' = [pc EXCEPT ![p] = "update"]
    /\ UNCHANGED <<evt, loc, outcome>>
    /\ UNCHANGED <<now, orgActive, users, roles, delivered, gateVars, bootVars>>

\* await prisma.user.findUnique by clerkId; the controller updates only if it found a row.
getUserByClerkId(p) ==
    /\ pc[p] = "getUser"
    /\ IF FindUserByClerkId(evt[p].id) = {}
       THEN Finish(p, Skipped)
       ELSE /\ pc' = [pc EXCEPT ![p] = "update"]
            /\ UNCHANGED <<evt, loc, outcome>>
    /\ UNCHANGED <<now, orgActive, users, roles, delivered, gateVars, bootVars>>

\* Faulty variant: the update also resets the status.
UpdatedUser_ResetsStatus(old, data, t) ==
    [old EXCEPT !.email = data.email,
                !.firstName = data.firstName,
                !.lastName = data.lastName,
                !.phone = data.phone,
                !.isPhoneVerified = (data.phone # ""),
                !.status = "ACTIVE",
                !.updatedAt = t]

\* The row handleClerkUserUpdate's prisma.user.update writes at instant t.
UpdatedUser(old, data, t) ==
    [old EXCEPT !.email = data.email,
                !.firstName = data.firstName,
                !.lastName = data.lastName,
                !.phone = data.phone,
                !.isPhoneVerified = (data.phone # ""),
                !.updatedAt = t]

\* handleClerkUserUpdate: await prisma.user.update({ where: { clerkId }, data });
\* the catch block logs and rethrows.
handleClerkUserUpdate(p) ==
    /\ pc[p] = "update"
    /\ LET data == extractClerkUserData(evt[p])
           found == FindUserByClerkId(evt[p].id)
       IN  IF found = {}
           THEN Finish(p, Thrown(ErrP2025)) /\ UNCHANGED users
           ELSE LET old == CHOOSE u \in found : TRUE
                    row == UpdatedUser(old, data, now)
                IN  IF UserUpdateViolations(old, row) # {}
                    THEN /\ Finish(p, ThrownUnique(UserUpdateViolations(old, row)))
                         /\ UNCHANGED users
                    ELSE /\ users' = ReplaceRow(old, row)
                         /\ Finish(p, Returned({row}))
    /\ UNCHANGED <<now, orgActive, roles, delivered, gateVars, bootVars>>

\* case 'user.deleted': the controller awaits AuthService.handleClerkUserDeletion(data.id).
DeliverDeleted(p, clerkUserId) ==
    /\ pc[p] = "idle"
    /\ delivered < MaxDeliveries
    /\ delivered' = delivered + 1
    /\ pc' = [pc EXCEPT ![p] = "deletionFind"]
    /\ evt' = [evt EXCEPT ![p] = [NoClerkUser EXCEPT !.id = clerkUserId]]
    /\ outcome' = [outcome EXCEPT ![p] = NoOutcome]
    /\ UNCHANGED <<now, orgActive, users, roles, loc, gateVars, env, running, credential,
                   verdict>>

\* handleClerkUserDeletion: await prisma.user.findUnique by clerkId; no row, plain return.
handleClerkUserDeletion(p) ==
    /\ pc[p] = "deletionFind"
    /\ IF FindUserByClerkId(evt[p].id) = {}
       THEN Finish(p, Returned({}))
       ELSE /\ pc' = [pc EXCEPT ![p] = "deletionUpdate"]
            /\ UNCHANGED <<evt, loc, outcome>>
    /\ UNCHANGED <<now, orgActive, users, roles, delivered, gateVars, bootVars>>

\* Faulty variant: the deletion also clears the email.
TerminatedUser_ClearsEmail(old, t) ==
    [old EXCEPT !.status = "TERMINATED", !.dateOfLeaving = t, !.email = "", !.updatedAt = t]

\* The row handleClerkUserDeletion's prisma.user.update writes at instant t: the
\* status, the leave date, and "updatedAt", a NOT NULL column without a default
\* that no create or update of this code has to supply: the data layer stamps it
\* on every write.
TerminatedUser(old, t) ==
    [old EXCEPT !.status = "TERMINATED", !.dateOfLeaving = t, !.updatedAt = t]

\* handleClerkUserDeletion: await prisma.user.update({ where: { clerkId }, data }).
handleClerkUserDeletionUpdate(p) ==
    /\ pc[p] = "deletionUpdate"
    /\ LET found == FindUserByClerkId(evt[p].id)
       IN  IF found = {}
           THEN Finish(p, Thrown(ErrP2025)) /\ UNCHANGED users
           ELSE LET old == CHOOSE u \in found : TRUE
                IN  /\ users' = ReplaceRow(old, TerminatedUser(old, now))
                    /\ Finish(p, Returned({}))
    /\ UNCHANGED <<now, orgActive, roles, delivered, gateVars, bootVars>>

\* default: an event of any other type is logged and answered 200.
DeliverUnhandled(p) ==
    /\ pc[p] = "idle"
    /\ delivered < MaxDeliveries
    /\ delivered' = delivered + 1
    /\ outcome' = [outcome EXCEPT ![p] = Unhandled]
    /\ UNCHANGED <<now, orgActive, users, roles, pc, evt, loc, gateVars, env, running,
                   credential, verdict>>

\* The user records the webhook events of one behaviour carry: both subjects,
\* every email shape, one organization.
HookClerkUsers == { cu \in ClerkUsers : cu.publicMetadata.organizationId = "org_1" }

\* The deliveries of one behaviour: an event of each handled type for each user
\* record, and one of a type the controller does not handle.
HookEvents ==
    { [type |-> t, data |-> cu] : t \in {"user.created", "user.updated"}, cu \in HookClerkUsers }
    \cup { [type |-> "user.deleted", data |-> [NoClerkUser EXCEPT !.id = s]] : s \in Subjects }
    \cup { [type |-> "session.created", data |-> NoClerkUser] }

\* The transport headers they arrive with: a full, correctly signed set, one whose
\* signature does not match, and one without the signature header.
HookEnvelopes ==
    { h \in Envelopes : h.svixId = "msg_1" /\ h.svixTimestamp # "" }

\* The controller answered 401: the envelope was not accepted.
Rejected == [kind |-> "rejected", error |-> "", target |-> {}, ret |-> {}]

\* ClerkConfig.verifyWebhook(payload, headers) under the shared secret: the parsed
\* event of an accepted envelope, nothing for a rejected one. An envelope is accepted
\* when the secret is configured, the event id, timestamp and signature headers are
\* all present and a signature matches the bytes received.
verifyWebhook(webhookSecret, headers, event) ==
    IF /\ webhookSecret # ""
       /\ headers.svixId # ""
       /\ headers.svixTimestamp # ""
       /\ headers.svixSignature = "v1,good"
    THEN {event}
    ELSE {}

\* if (!evt): the 401 response, before the event is looked at.
DeliverRejected(p) ==
    /\ pc[p] = "idle"
    /\ delivered < MaxDeliveries
    /\ delivered' = delivered + 1
    /\ outcome' = [outcome EXCEPT ![p] = Rejected]
    /\ UNCHANGED <<now, orgActive, users, roles, pc, evt, loc, gateVars, env, running,
                   credential, verdict>>

\* switch (type) on the event verifyWebhook returned.
HandleEvent(p, event) ==
    CASE event.type = "user.created" -> DeliverCreated(p, event.data)
      [] event.type = "user.updated" -> DeliverUpdated(p, event.data)
      [] event.type = "user.deleted" -> DeliverDeleted(p, event.data.id)
      [] OTHER -> DeliverUnhandled(p)

\* What the controller's check of the envelope found.
Checked(headers, evtFound) ==
    [headers |-> headers, secret |-> env.CLERK_WEBHOOK_SECRET, accepted |-> evtFound # {},
     verified |-> FALSE, called |-> FALSE]

\* Faulty variant: the event is handled whatever the check of the envelope returned.
handleClerkWebhook_HandlesUnverified(p, headers, event) ==
    /\ whVerdict' = Checked(headers, verifyWebhook(env.CLERK_WEBHOOK_SECRET, headers, event))
    /\ HandleEvent(p, event)

\* handleClerkWebhook: a delivery with these headers and this body reaches the
\* controller; the envelope is checked, then the event is handled.
handleClerkWebhook(p, headers, event) ==
    LET evtFound == verifyWebhook(env.CLERK_WEBHOOK_SECRET, headers, event)
    IN  /\ whVerdict' = Checked(headers, evtFound)
        /\ IF evtFound = {}
           THEN DeliverRejected(p)
           ELSE HandleEvent(p, CHOOSE e \in evtFound : TRUE)

\* Faulty variant: an event of a type the controller does not handle is refused.
WebhookStatus_RefusesUnknownTypes(o) ==
    CASE o.kind = "none" -> 0
      [] o.kind = "rejected" -> 401
      [] o.kind = "error" -> 500
      [] o.kind = "unhandled" -> 400
      [] OTHER -> 200

\* The status of the response a delivery with outcome o is given; 0 while the
\* delivery is being handled.
WebhookStatus(o) ==
    CASE o.kind = "none" -> 0
      [] o.kind = "rejected" -> 401
      [] o.kind = "error" -> 500
      [] OTHER -> 200

NextHook ==
    \/ \E t \in LaterInstants : AdvanceClock(t)
    \/ \E p \in Procs, h \in HookEnvelopes, e \in HookEvents : handleClerkWebhook(p, h, e)
    \/ \E p \in Procs : SyncFindUser(p)
    \/ \E p \in Procs : SyncFindOrganization(p)
    \/ \E p \in Procs, code \in EmployeeCodes : generateUniqueEmployeeCode(p, code)
    \/ \E p \in Procs : SyncFindRole(p)
    \/ \E p \in Procs : SyncCreateRole(p)
    \/ \E p \in Procs : SyncCreateUser(p)
    \/ \E p \in Procs : getUserByClerkId(p)
    \/ \E p \in Procs : handleClerkUserUpdate(p)
    \/ \E p \in Procs : handleClerkUserDeletion(p)
    \/ \E p \in Procs : handleClerkUserDeletionUpdate(p)

SpecHook == Init /\ [][NextHook]_vars

\* ------------------------------------------------ exchangeClerkTokenForJWT

ErrUserNotFound == "User not found. Please complete registration first."

\* user.role.name of the row prisma.user.findUnique returned with include: { role }.
RoleName(user) == (CHOOSE r \in roles : r.id = user.roleId).name

\* Faulty variant: the claims are built without the row's organization.
ExchangePayload_NoOrganization(user) ==
    [id |-> user.id, clerkUid |-> user.clerkId, organizationId |-> "",
     email |-> user.email, firstName |-> user.firstName, lastName |-> user.lastName,
     role |-> RoleName(user)]

\* The claims exchangeClerkTokenForJWT hands to generateToken.
ExchangePayload(user) ==
    [id |-> user.id, clerkUid |-> user.clerkId, organizationId |-> user.organizationId,
     email |-> user.email, firstName |-> user.firstName, lastName |-> user.lastName,
     role |-> RoleName(user)]

\* exchangeClerkTokenForJWT returned { token, user }.
Exchanged(token, found) ==
    [kind |-> "exchanged", error |-> "", target |-> {},
     ret |-> {[token |-> token, user |-> found]}]

\* Faulty variant: a subject without a row is given a credential of empty claims.
ExchangeResult_IssuesAnyway(found, t) ==
    IF found = {}
    THEN Exchanged(generateToken([k \in DOMAIN NoPayload \ {"exp"} |-> ""], t), found)
    ELSE Exchanged(generateToken(ExchangePayload(CHOOSE u \in found : TRUE), t), found)

\* What exchangeClerkTokenForJWT does with the row(s) its lookup found at instant t.
ExchangeResult(found, t) ==
    IF found = {}
    THEN Thrown(ErrUserNotFound)
    ELSE Exchanged(generateToken(ExchangePayload(CHOOSE u \in found : TRUE), t), found)

\* A signed-in subject asks for a credential: exchangeClerkTokenForJWT(clerkUserId).
Exchange(p, clerkUserId) ==
    /\ pc[p] = "idle"
    /\ delivered < MaxDeliveries
    /\ delivered' = delivered + 1
    /\ pc' = [pc EXCEPT ![p] = "exchange"]
    /\ evt' = [evt EXCEPT ![p] = [NoClerkUser EXCEPT !.id = clerkUserId]]
    /\ outcome' = [outcome EXCEPT ![p] = NoOutcome]
    /\ UNCHANGED <<now, orgActive, users, roles, loc, gateVars, bootVars>>

\* await prisma.user.findUnique by clerkId, then the check and generateToken; the
\* catch block logs and rethrows.
exchangeClerkTokenForJWT(p) ==
    /\ pc[p] = "exchange"
    /\ LET result == ExchangeResult(FindUserByClerkId(evt[p].id), now)
       IN  /\ Finish(p, result)
           /\ credential' =
                 IF result.kind = "exchanged"
                 THEN LET token == (CHOOSE x \in result.ret : TRUE).token
                      IN  {[input |-> [k \in DOMAIN token.payload \ {"exp", "iat"}
                                         |-> token.payload[k]],
                            issuedAt |-> now, secret |-> JWT_SECRET, token |-> token]}
                 ELSE credential
    /\ UNCHANGED <<now, orgActive, users, roles, delivered, gateVars, env, running, verdict,
                   whVerdict>>

\* The external records provisioned in a session: one per subject, each with an
\* email of its own, in one organization.
SessionClerkUsers ==
    { cu \in HookClerkUsers :
        /\ Len(cu.emailAddresses) > 0
        /\ (cu.id = "ext_1") = (Len(cu.emailAddresses) = 1) }

\* The requests of a session: the credential the exchange issued, or a correctly
\* signed credential with any organization claim, absent included.
SessionRequests ==
    { [token |-> t, params |-> "", query |-> "", body |-> ""]
      : t \in { c.token : c \in credential }
              \cup { t \in Tokens : t.sig = "good" } }

\* A request of the session enters the gate.
SessionRequest(r) == \E request \in SessionRequests : validateTenantAccess(r, request)

NextSession ==
    \/ \E p \in Procs, cu \in SessionClerkUsers : Deliver(p, cu)
    \/ \E p \in Procs : SyncFindUser(p)
    \/ \E p \in Procs : SyncFindOrganization(p)
    \/ \E p \in Procs, code \in EmployeeCodes : generateUniqueEmployeeCode(p, code)
    \/ \E p \in Procs : SyncFindRole(p)
    \/ \E p \in Procs : SyncCreateRole(p)
    \/ \E p \in Procs : SyncCreateUser(p)
    \/ \E p \in Procs, s \in Subjects : Exchange(p, s)
    \/ \E p \in Procs : exchangeClerkTokenForJWT(p)
    \/ \E r \in Reqs : SessionRequest(r)
    \/ \E r \in Reqs : validateTenantAccessLookup(r)
    \/ \E r \in Reqs : ensureResourceBelongsToTenant(r)

SpecSession == Init /\ [][NextSession]_vars

\* ------------------------------------------- updates of provisioned users

\* The tables after both subjects have been provisioned in organization org_1, as
\* syncClerkUserToDatabase leaves them: the first subject's events carry a phone.
ProvisionedRoles ==
    { [id |-> 1, organizationId |-> "org_1", name |-> "employee", level |-> 10,
       isSystem |-> TRUE, isActive |-> TRUE] }

ProvisionedUsers ==
    { [id |-> 1, clerkId |-> "ext_1", organizationId |-> "org_1", roleId |-> 1,
       employeeCode |-> "EMP000001001", email |-> "a@x.com", firstName |-> "User",
       lastName |-> "", phone |-> "555", dateOfJoining |-> 0, dateOfLeaving |-> NoDate,
       status |-> "ACTIVE", isEmailVerified |-> TRUE, isPhoneVerified |-> TRUE,
       updatedAt |-> 0],
      [id |-> 2, clerkId |-> "ext_2", organizationId |-> "org_1", roleId |-> 1,
       employeeCode |-> "EMP000001002", email |-> "b@x.com", firstName |-> "User",
       lastName |-> "", phone |-> "null", dateOfJoining |-> 0, dateOfLeaving |-> NoDate,
       status |-> "ACTIVE", isEmailVerified |-> TRUE, isPhoneVerified |-> FALSE,
       updatedAt |-> 0] }

InitProvisioned ==
    /\ now = 0
    /\ orgActive = [o \in DirectoryOrgs |-> TRUE]
    /\ users = ProvisionedUsers
    /\ roles = ProvisionedRoles
    /\ pc = [p \in Procs |-> "idle"]
    /\ evt = [p \in Procs |-> NoClerkUser]
    /\ loc = [p \in Procs |-> NoLocals]
    /\ outcome = [p \in Procs |-> NoOutcome]
    /\ delivered = 0
    /\ gpc = [r \in Reqs |-> "idle"]
    /\ greq = [r \in Reqs |-> NoRequest]
    /\ decoded = [r \in Reqs |-> {}]
    /\ organization = [r \in Reqs |-> {}]
    /\ reqUser = [r \in Reqs |-> {}]
    /\ resp = [r \in Reqs |-> NoResponse]
    /\ nextCalls = [r \in Reqs |-> {}]
    /\ gstart = [r \in Reqs |-> [at |-> 0, orgActive |-> [o \in DirectoryOrgs |-> TRUE]]]
    /\ started = 0
    /\ admittedOrgs = {}
    /\ env = FullEnv
    /\ running = TRUE
    /\ credential = {}
    /\ verdict = NoVerdict
    /\ whVerdict = NoWhVerdict

\* user.updated events for the provisioned subjects.
NextProvisioned ==
    \/ \E t \in LaterInstants : AdvanceClock(t)
    \/ \E p \in Procs, cu \in HookClerkUsers : DeliverUpdated(p, cu) /\ UNCHANGED whVerdict
    \/ \E p \in Procs : getUserByClerkId(p)
    \/ \E p \in Procs : handleClerkUserUpdate(p)

SpecProvisioned == InitProvisioned /\ [][NextProvisioned]_vars

\* ---------------------------------------- credentials of terminated users

\* The one subject provisioned, given a credential and deleted.
TerminatedClerkUsers == { cu \in SessionClerkUsers : cu.id = "ext_1" }

\* Its events are handled one at a time.
TerminatedProcs == {"d1"}

\* The instants the clock moves to: the last at which a credential issued at the
\* start is valid, and the instant it expires.
TerminatedInstants == {TOKEN_TTL - 1, TOKEN_TTL}

\* Provisioning, the credential exchange, user.deleted and the gate, with the clock
\* and the organization's flag moving.
NextTerminated ==
    \/ \E o \in UpdatedOrgs, b \in BOOLEAN : SetOrganizationActive(o, b)
    \/ \E t \in TerminatedInstants : AdvanceClock(t)
    \/ \E p \in TerminatedProcs, cu \in TerminatedClerkUsers : Deliver(p, cu)
    \/ \E p \in TerminatedProcs : SyncFindUser(p)
    \/ \E p \in TerminatedProcs : SyncFindOrganization(p)
    \/ \E p \in TerminatedProcs, code \in EmployeeCodes : generateUniqueEmployeeCode(p, code)
    \/ \E p \in TerminatedProcs : SyncFindRole(p)
    \/ \E p \in TerminatedProcs : SyncCreateRole(p)
    \/ \E p \in TerminatedProcs : SyncCreateUser(p)
    \/ \E p \in TerminatedProcs, cu \in TerminatedClerkUsers : Exchange(p, cu.id)
    \/ \E p \in TerminatedProcs : exchangeClerkTokenForJWT(p)
    \/ \E p \in TerminatedProcs, cu \in TerminatedClerkUsers :
          DeliverDeleted(p, cu.id) /\ UNCHANGED whVerdict
    \/ \E p \in TerminatedProcs : handleClerkUserDeletion(p)
    \/ \E p \in TerminatedProcs : handleClerkUserDeletionUpdate(p)
    \/ \E r \in Reqs : SessionRequest(r)
    \/ \E r \in Reqs : validateTenantAccessLookup(r)
    \/ \E r \in Reqs : ensureResourceBelongsToTenant(r)

SpecTerminated == Init /\ [][NextTerminated]_vars

\* ------------------------------------------------- start-up and the codec

\* The process is started with environment e: the modules are loaded, getEnv is
\* evaluated, JWT_SECRET is bound.
StartWith(e) ==
    /\ env' = e
    /\ running' = GetEnvLoads(e)
    /\ credential' = {}
    /\ verdict' = NoVerdict
    /\ whVerdict' = NoWhVerdict
    /\ UNCHANGED <<now, orgActive, provVars, gateVars>>

\* generateToken(payload) is called.
Issue(payload) ==
    /\ running
    /\ credential' = {[input |-> payload, issuedAt |-> now, secret |-> JWT_SECRET,
                        token |-> generateToken(payload, now)]}
    /\ UNCHANGED <<now, orgActive, provVars, gateVars, env, running, verdict, whVerdict>>

\* A byte of the signature segment of the credential is flipped.
Tamper ==
    /\ \E c \in credential : c.token.sig = "good"
    /\ credential' = { [c EXCEPT !.token.sig = "bad"] : c \in credential }
    /\ UNCHANGED <<now, orgActive, provVars, gateVars, env, running, verdict, whVerdict>>

\* verifyToken(token) is called on the credential.
Verify ==
    /\ running
    /\ credential # {}
    /\ LET token == (CHOOSE c \in credential : TRUE).token
       IN  verdict' = [at |-> now, credential |-> credential,
                       claims |-> verifyToken(token, now),
                       error |-> verifyTokenError(token, now)]
    /\ UNCHANGED <<now, orgActive, provVars, gateVars, env, running, credential, whVerdict>>

NextCodec ==
    \/ \E e \in Environments : StartWith(e)
    \/ \E payload \in IssuePayloads : Issue(payload)
    \/ Tamper
    \/ Verify
    \/ \E t \in ClockInstants : AdvanceClock(t)

SpecCodec == Init /\ [][NextCodec]_vars

\* ClerkConfig.verifyWebhookSignature(payload, headers) is called.
VerifyWebhookSignature(headers) ==
    /\ LET result == verifyWebhookSignature(env.CLERK_WEBHOOK_SECRET, headers)
       IN  whVerdict' = [headers |-> headers, secret |-> env.CLERK_WEBHOOK_SECRET,
                         accepted |-> result.accepted, verified |-> result.verified,
                         called |-> TRUE]
    /\ UNCHANGED <<now, orgActive, provVars, gateVars, env, running, credential, verdict>>

NextAuthenticator ==
    \/ \E e \in Environments : StartWith(e)
    \/ \E headers \in Envelopes : VerifyWebhookSignature(headers)

SpecAuthenticator == Init /\ [][NextAuthenticator]_vars

\* ================================================================== claims

\* The rows of the User table that carry external subject s.
RowsOfSubject(s) == { u \in users : u.clerkId = s }

\* The call of process p ends in this step.
Ends(p) == pc[p] # "idle" /\ pc'[p] = "idle"

\* C1: in every reachable state, whatever the interleaving of user.created
\* deliveries, the User table holds at most one row per external subject.
C1_OneRowPerSubject ==
    \A u1 \in users, u2 \in users : u1.clerkId = u2.clerkId => u1 = u2

\* A delivery that passed the existence lookup stands before its insert while
\* another delivery has already inserted the row of the same subject.
C1_Witness ==
    \E p \in Procs : pc[p] = "createUser" /\ RowsOfSubject(evt[p].id) # {}

\* C2: no onUserCreated call ends by propagating the unique violation on the
\* external subject identifier to its caller.
C2_NoUniqueViolationSurfaced ==
    \A p \in Procs :
        ~(outcome[p].kind = "error" /\ outcome[p].error = ErrP2002
          /\ "User_clerkId_key" \in outcome[p].target)

\* C3: a call whose existence lookup finds a row for the subject returns exactly
\* that row, raises nothing and writes nothing to the User and Role tables, and
\* the subject has exactly one row.
C3_IdempotentRedelivery ==
    [][\A p \in Procs :
          (pc[p] = "findUser" /\ pc'[p] # "findUser" /\ RowsOfSubject(evt[p].id) # {})
          => /\ users' = users
             /\ roles' = roles
             /\ Cardinality(RowsOfSubject(evt[p].id)) = 1
             /\ outcome'[p] = Returned(RowsOfSubject(evt[p].id))
             /\ pc'[p] = "idle"]_vars

\* Two calls have returned the same single row: one created it, the later one
\* found it.
C3_Witness ==
    /\ Cardinality(users) = 1
    /\ \E p \in Procs, q \in Procs :
          /\ p # q
          /\ outcome[p].kind = "ok"
          /\ outcome[p].ret = users
          /\ outcome[q] = outcome[p]

\* C4: every User row is inserted in a step in which the organization it
\* references exists and is active.
C4_OrganizationActiveAtInsert ==
    [][\A u \in users' \ users :
          u.organizationId \in DirectoryOrgs /\ orgActive[u.organizationId]]_vars

\* C9 (as stated): every call for an event whose metadata lacks an organization
\* identifier creates no User and fails with MissingTenantContext.
C9_AlwaysMissingTenantContext ==
    [][\A p \in Procs :
          (Ends(p) /\ evt[p].publicMetadata.organizationId = "")
          => users' = users /\ outcome'[p] = Thrown(ErrOrgContextRequired)]_vars

\* C9 (amended): a call for an event whose metadata lacks an organization
\* identifier ends at its first step without writing a User or a Role and without
\* ever holding an organization; it returns the subject's row when there is one,
\* fails with MissingEmail when no email resolves, and with MissingTenantContext
\* otherwise.
C9_MissingTenantContext ==
    [][\A p \in Procs :
          (pc[p] # "idle" /\ evt[p].publicMetadata.organizationId = "")
          => /\ pc[p] = "findUser"
             /\ loc[p].organizationId = ""
             /\ pc'[p] # pc[p]
                => /\ pc'[p] = "idle"
                   /\ users' = users
                   /\ roles' = roles
                   /\ outcome'[p] =
                        IF RowsOfSubject(evt[p].id) # {}
                        THEN Returned(RowsOfSubject(evt[p].id))
                        ELSE IF extractClerkUserData(evt[p]).email = ""
                        THEN Thrown(ErrEmailRequired)
                        ELSE Thrown(ErrOrgContextRequired)]_vars

\* A call has failed with MissingTenantContext.
C9_Witness ==
    \E p \in Procs : outcome[p] = Thrown(ErrOrgContextRequired)

\* The organization identifier is not in the directory or names an inactive one.
UnknownOrInactive(o) == o \notin DirectoryOrgs \/ ~orgActive[o]

\* C10 (as stated): every call for an event whose organization identifier is
\* not in the directory, or names an inactive organization, creates no User and
\* fails with UnknownOrInactiveOrganization.
C10_AlwaysUnknownOrInactive ==
    [][\A p \in Procs :
          (Ends(p) /\ evt[p].publicMetadata.organizationId # ""
                   /\ UnknownOrInactive(evt[p].publicMetadata.organizationId))
          => users' = users /\ outcome'[p] = Thrown(ErrOrgNotFoundOrInactive)]_vars

\* C10 (amended): a call for an event that names an organization either ends at
\* its first step, returning the subject's row or failing with MissingEmail, or
\* reaches its organization lookup and looks up the identifier of the event's
\* metadata; when that identifier is not in the directory or names an
\* organization inactive at the lookup, the call ends there without writing a
\* User or a Role and fails with UnknownOrInactiveOrganization, whose message is
\* not MissingTenantContext's.
C10_UnknownOrInactiveOrganization ==
    [][\A p \in Procs :
          /\ (pc[p] = "findUser" /\ pc'[p] = "idle"
              /\ evt[p].publicMetadata.organizationId # "")
             => /\ users' = users
                /\ roles' = roles
                /\ outcome'[p] =
                     IF RowsOfSubject(evt[p].id) # {}
                     THEN Returned(RowsOfSubject(evt[p].id))
                     ELSE Thrown(ErrEmailRequired)
          /\ pc[p] = "findOrg"
             => /\ loc[p].organizationId = evt[p].publicMetadata.organizationId
                /\ (pc'[p] # pc[p] /\ UnknownOrInactive(loc[p].organizationId))
                   => /\ pc'[p] = "idle"
                      /\ users' = users
                      /\ roles' = roles
                      /\ outcome'[p] = Thrown(ErrOrgNotFoundOrInactive)
                      /\ outcome'[p] # Thrown(ErrOrgContextRequired)]_vars

\* Calls have failed with UnknownOrInactiveOrganization while the directory's
\* organization is inactive and no User exists.
C10_Witness ==
    /\ users = {}
    /\ ~orgActive["org_1"]
    /\ \E p \in Procs : outcome[p] = Thrown(ErrOrgNotFoundOrInactive)

\* ------------------------------------------------------------ the gate's claims

\* The organization identifiers request supplies, in the path, the query or the body.
SuppliedOrgs(request) == {request.params, request.query, request.body} \ {""}

\* The organization of the identity attached to request r.
CallerOrg(r) == (CHOOSE u \in reqUser[r] : TRUE).organizationId

\* C5: validateTenantAccess lets a request through only if it carried a token,
\* the token's signature is good and it was unexpired when verified, its claims
\* name an organization, and the lookup of this request read that organization
\* as existing and active; the identity attached carries the claims' user id and
\* organization id.
C5_AdmitsOnlyConfirmedTenant ==
    \A r \in Reqs :
        (gpc[r] \in {"resource", "handler"} \/ nextCalls[r] # {} \/ reqUser[r] # {})
        => LET claims == greq[r].token.payload
           IN  /\ greq[r].token.sig = "good"
               /\ gstart[r].at < claims.exp
               /\ claims.organizationId # ""
               /\ organization[r] = {[id |-> claims.organizationId, isActive |-> TRUE]}
               /\ Cardinality(reqUser[r]) = 1
               /\ \A u \in reqUser[r] :
                     u.id = claims.id /\ u.organizationId = claims.organizationId

\* A request has reached the downstream handler.
C5_Witness ==
    \E r \in Reqs : gpc[r] = "handler" /\ resp[r] = NoResponse

\* C6: a request whose organization lookup runs while the organization of its
\* credential is inactive is answered 403 and is not let through, whatever
\* earlier requests were admitted for that organization.
C6_DeactivationCutsAccess ==
    [][\A r \in Reqs :
          (gpc[r] = "orgLookup" /\ gpc'[r] # "orgLookup"
           /\ \E c \in decoded[r] :
                 c.organizationId \in DirectoryOrgs /\ ~orgActive[c.organizationId])
          => /\ resp'[r].status = 403
             /\ gpc'[r] = "responded"
             /\ nextCalls'[r] = {}
             /\ reqUser'[r] = {}]_vars

\* An earlier request was admitted for the organization; the organization was
\* then deactivated; a request that started after that with a good, unexpired
\* credential for it has been answered 403.
C6_Witness ==
    \E r \in Reqs :
        LET claims == greq[r].token.payload
        IN  /\ claims.organizationId \in admittedOrgs
            /\ ~gstart[r].orgActive[claims.organizationId]
            /\ greq[r].token.sig = "good"
            /\ gstart[r].at < claims.exp
            /\ resp[r] = Response(403, "Organization is inactive or not found")

\* C7: for a request past validateTenantAccess on which the resource check has
\* acted: when the one organization identifier it supplies differs from the
\* caller's, it is answered 403 and the handler is not called; when it supplies
\* none, or only the caller's own, the handler is called.
C7_ResourceTenantConfirmation ==
    \A r \in Reqs :
        (reqUser[r] # {} /\ gpc[r] \in {"responded", "handler"})
        => LET ids == SuppliedOrgs(greq[r])
           IN  /\ (Cardinality(ids) = 1 /\ ids # {CallerOrg(r)})
                  => /\ resp[r].status = 403
                     /\ gpc[r] = "responded"
                     /\ "ensureResourceBelongsToTenant" \notin nextCalls[r]
               /\ ids \subseteq {CallerOrg(r)}
                  => /\ gpc[r] = "handler"
                     /\ resp[r] = NoResponse
                     /\ "ensureResourceBelongsToTenant" \in nextCalls[r]

\* A request that supplies another organization's identifier only in its body
\* has been answered 403.
C7_Witness ==
    \E r \in Reqs :
        /\ reqUser[r] # {}
        /\ greq[r].params = "" /\ greq[r].query = ""
        /\ greq[r].body \notin {"", CallerOrg(r)}
        /\ resp[r].status = 403

\* C8: every organization identifier that an admitted request supplies, in the
\* path, the query or the body, is the caller's organization.
C8_EverySuppliedOrgIsCallers ==
    \A r \in Reqs :
        gpc[r] = "handler" => \A o \in SuppliedOrgs(greq[r]) : o = CallerOrg(r)

\* ------------------------------------------------- provisioning, continued

\* C11 (as stated): every call for an event from which no email resolves creates
\* no User and fails with MissingEmail.
C11_AlwaysMissingEmail ==
    [][\A p \in Procs :
          (Ends(p) /\ Len(evt[p].emailAddresses) = 0)
          => users' = users /\ outcome'[p] = Thrown(ErrEmailRequired)]_vars

\* C11 (amended): a call for an event that carries no email address ends at its
\* first step, whatever organization its metadata names, without writing a User
\* or a Role; it fails with MissingEmail when its subject has no row and returns
\* the subject's row when there is one.
C11_MissingEmail ==
    [][\A p \in Procs :
          (pc[p] # "idle" /\ Len(evt[p].emailAddresses) = 0)
          => /\ pc[p] = "findUser"
             /\ pc'[p] # pc[p]
                => /\ pc'[p] = "idle"
                   /\ users' = users
                   /\ roles' = roles
                   /\ outcome'[p] =
                        IF RowsOfSubject(evt[p].id) # {}
                        THEN Returned(RowsOfSubject(evt[p].id))
                        ELSE Thrown(ErrEmailRequired)]_vars

\* A call has failed with MissingEmail while no User exists.
C11_Witness ==
    /\ users = {}
    /\ \E p \in Procs : outcome[p] = Thrown(ErrEmailRequired)

\* C13: no onUserCreated call ends with the unique violation of the role
\* insert: a call that loses the race for the organization's "employee" role
\* re-fetches the role and goes on.
C13_DuplicateRoleRaceTolerated ==
    \A p \in Procs :
        ~(outcome[p].kind = "error" /\ outcome[p].error = ErrP2002
          /\ "Role_organizationId_name_key" \in outcome[p].target)

\* C14: employee-code generation always terminates: a call that is generating
\* its employee code eventually leaves generation, with a code or with
\* CodeGenerationExhausted.
C14_GenerationTerminates ==
    \A p \in Procs : (pc[p] = "genCode") ~> (pc[p] # "genCode")

\* C15: no onUserCreated call for a subject without a row ends with the unique
\* violation of the employee code: a call whose insert collides on the code
\* with another subject's row regenerates the code and retries.
C15_CodeCollisionResolved ==
    \A p \in Procs :
        ~(outcome[p].kind = "error" /\ outcome[p].error = ErrP2002
          /\ "User_employeeCode_key" \in outcome[p].target
          /\ "User_clerkId_key" \notin outcome[p].target)

\* ------------------------------------------------------ the webhook's events

\* The rows of the User table after the step that carry external subject s.
RowsOfSubjectAfter(s) == { u \in users' : u.clerkId = s }

\* Row v is row u but for the fields named in changed.
SameBut(u, v, changed) ==
    \A f \in (DOMAIN u) \ changed : v[f] = u[f]

C16_UpdateBeforeCreateIsNoOp ==
    [][\A p \in Procs :
          /\ (pc[p] = "idle" /\ pc'[p] = "getUser") => users' = users /\ roles' = roles
          /\ (pc[p] = "getUser" /\ pc'[p] # pc[p] /\ RowsOfSubject(evt[p].id) = {})
             => /\ users' = users
                /\ roles' = roles
                /\ orgActive' = orgActive
                /\ pc'[p] = "idle"
                /\ outcome'[p] = Skipped]_vars

\* An update was skipped because its subject had no row, and every subject has
\* a row now: the subject's creation event came after its update.
C16_Witness ==
    /\ \E p \in Procs : outcome[p] = Skipped
    /\ \A s \in Subjects : RowsOfSubject(s) # {}

\* C17: the update step of onUserUpdated leaves every row of another subject as
\* it is and keeps the subject's single row; that row keeps its identifier,
\* organization, role, employee code, external subject identifier, status, join
\* and leave dates and email-verified flag; when the update succeeds the row's
\* email, names, phone and phone-verified flag are the event's and its update
\* timestamp is the clock's; when it fails the row is unchanged.
C17_UpdateFrame ==
    [][\A p \in Procs :
          (pc[p] = "update" /\ pc'[p] # pc[p])
          => LET s == evt[p].id
                 data == extractClerkUserData(evt[p])
             IN  /\ { u \in users : u.clerkId # s } = { u \in users' : u.clerkId # s }
                 /\ Cardinality(RowsOfSubject(s)) = 1
                 /\ Cardinality(RowsOfSubjectAfter(s)) = 1
                 /\ \A u \in RowsOfSubject(s), v \in RowsOfSubjectAfter(s) :
                       /\ SameBut(u, v, {"email", "firstName", "lastName", "phone",
                                         "isPhoneVerified", "updatedAt"})
                       /\ outcome'[p].kind = "ok"
                          => /\ v.email = data.email
                             /\ v.firstName = data.firstName
                             /\ v.lastName = data.lastName
                             /\ v.phone = data.phone
                             /\ v.isPhoneVerified = (data.phone # "")
                             /\ v.updatedAt = now
                       /\ outcome'[p].kind # "ok" => v = u]_vars

\* A terminated User has been updated after it was terminated: its status is
\* still terminated.
C17_Witness ==
    \E u \in users :
        u.status = "TERMINATED" /\ u.updatedAt > u.dateOfLeaving

\* C18 (as stated): the update step of onUserDeleted rewrites the subject's row
\* with status terminated and the leave date, every other field as before.
C18_OnlyStatusAndLeaveDate ==
    [][\A p \in Procs :
          (pc[p] = "deletionUpdate" /\ pc'[p] # pc[p])
          => \A u \in RowsOfSubject(evt[p].id), v \in RowsOfSubjectAfter(evt[p].id) :
                SameBut(u, v, {"status", "dateOfLeaving"})]_vars

\* C18 (amended): onUserDeleted for a subject with a row sets the row's status
\* to terminated and its leave date and update timestamp to the clock, every
\* other field of the row and every other row as before; for a subject without
\* a row it changes nothing and returns without an error.
C18_DeletionFrame ==
    [][\A p \in Procs :
          /\ (pc[p] = "deletionFind" /\ pc'[p] # pc[p])
             => /\ users' = users
                /\ roles' = roles
                /\ RowsOfSubject(evt[p].id) = {}
                   => pc'[p] = "idle" /\ outcome'[p] = Returned({})
          /\ (pc[p] = "deletionUpdate" /\ pc'[p] # pc[p])
             => LET s == evt[p].id
                IN  /\ { u \in users : u.clerkId # s } = { u \in users' : u.clerkId # s }
                    /\ roles' = roles
                    /\ Cardinality(RowsOfSubject(s)) = 1
                    /\ Cardinality(RowsOfSubjectAfter(s)) = 1
                    /\ \A u \in RowsOfSubject(s), v \in RowsOfSubjectAfter(s) :
                          /\ SameBut(u, v, {"status", "dateOfLeaving", "updatedAt"})
                          /\ v.status = "TERMINATED"
                          /\ v.dateOfLeaving = now
                          /\ v.updatedAt = now
                    /\ outcome'[p] = Returned({})]_vars

\* A User that joined at the first instant has been terminated at a later one.
C18_Witness ==
    \E u \in users :
        /\ u.status = "TERMINATED"
        /\ u.dateOfJoining = 0
        /\ u.dateOfLeaving = TOKEN_TTL

\* C19: no step of the handling of a webhook event, whatever its type, removes
\* a User row: the subjects that have a row, and the identifiers of the rows,
\* never shrink.
C19_NoRowRemoved ==
    [][/\ { u.clerkId : u \in users } \subseteq { u.clerkId : u \in users' }
       /\ { u.id : u \in users } \subseteq { u.id : u \in users' }]_vars

\* A user.deleted event has been handled for a subject, whose row is still
\* there, and an event of an unhandled type has been answered.
C19_Witness ==
    /\ \E u \in users : u.status = "TERMINATED" /\ u.dateOfLeaving # NoDate
    /\ \E p \in Procs : outcome[p] = Unhandled

\* ------------------------------------------------- the gate's order of checks

\* C20: the first failing check of the gate decides the response of a request,
\* in this order: no bearer token, 401; a token whose signature is bad or that
\* had expired when the request was verified, 401, whatever its claims; verified
\* claims without an organization identifier, 403; an organization that the
\* lookup read as missing or inactive, 403. A request rejected by one of the
\* first three checks made no organization lookup, and none of the rejected
\* requests is let through.
C20_FirstFailingCheckDecides ==
    \A r \in Reqs :
        gpc[r] # "idle"
        => LET token == greq[r].token
               claims == token.payload
               rejected == /\ gpc[r] = "responded"
                           /\ nextCalls[r] = {}
                           /\ reqUser[r] = {}
           IN  IF token.sig = "none"
               THEN /\ resp[r] = Response(401, "Authentication token required")
                    /\ rejected /\ organization[r] = {}
               ELSE IF token.sig # "good" \/ gstart[r].at >= claims.exp
               THEN /\ resp[r] = Response(401, "Invalid or expired token")
                    /\ rejected /\ organization[r] = {}
               ELSE IF claims.organizationId = ""
               THEN /\ resp[r] = Response(403, "Invalid token: missing organization context")
                    /\ rejected /\ organization[r] = {}
               ELSE IF gpc[r] = "orgLookup"
               THEN resp[r] = NoResponse /\ organization[r] = {}
               ELSE IF organization[r] = {} \/ \E o \in organization[r] : ~o.isActive
               THEN /\ resp[r] = Response(403, "Organization is inactive or not found")
                    /\ rejected
               ELSE /\ reqUser[r] # {}
                    /\ "validateTenantAccess" \in nextCalls[r]
                    /\ resp[r].status \notin {401}

\* A token that fails verification and whose claims lack an organization
\* identifier has been answered 401.
C20_Witness ==
    \E r \in Reqs :
        /\ greq[r].token.sig = "bad"
        /\ greq[r].token.payload.organizationId = ""
        /\ resp[r] = Response(401, "Invalid or expired token")

\* ------------------------------------------------------ the credential codec

\* The credential the last verification was run on was not tampered with.
Untampered(c) == c.token.sig = "good"

\* C22 (as stated): a verification of an issued, untampered credential before
\* its expiry instant returns the input claim set with only an expiry field added.
C22_OnlyExpiryAdded ==
    \A c \in verdict.credential :
        (Untampered(c) /\ verdict.at < c.token.payload.exp)
        => /\ verdict.claims # {}
           /\ \A d \in verdict.claims :
                 /\ \A f \in DOMAIN c.input : d[f] = c.input[f]
                 /\ DOMAIN d = (DOMAIN c.input) \cup {"exp"}

\* C22 (amended): a verification of an issued, untampered credential before its
\* expiry instant throws nothing and returns one claim set: every field of the
\* input with its input value, and two fields added, the expiry and the issue
\* instant.
C22_RoundTrip ==
    \A c \in verdict.credential :
        (Untampered(c) /\ verdict.at < c.token.payload.exp)
        => /\ verdict.error = ""
           /\ Cardinality(verdict.claims) = 1
           /\ \A d \in verdict.claims :
                 /\ \A f \in DOMAIN c.input : d[f] = c.input[f]
                 /\ DOMAIN d = (DOMAIN c.input) \cup {"exp", "iat"}
                 /\ d.exp = c.issuedAt + TOKEN_TTL
                 /\ d.iat = c.issuedAt

\* A credential that names an organization, issued after the first instant, has
\* been verified and its claims returned.
C22_Witness ==
    /\ verdict.claims # {}
    /\ \E c \in verdict.credential :
          c.issuedAt > 0 /\ c.input.organizationId = "org_1"

\* C23: a credential carries the expiry of 604800 seconds after its issue
\* instant; verified untampered one second before that expiry it is accepted,
\* one second after it it is rejected as expired, and no credential is accepted
\* at an instant later than its expiry.
C23_ExpiryBoundary ==
    \A c \in verdict.credential :
        LET exp == c.token.payload.exp
        IN  /\ exp = c.issuedAt + 7 * 24 * 60 * 60
            /\ (Untampered(c) /\ verdict.at = c.issuedAt + 7 * 24 * 60 * 60 - 1)
               => verdict.claims # {} /\ verdict.error = ""
            /\ (Untampered(c) /\ verdict.at = c.issuedAt + 7 * 24 * 60 * 60 + 1)
               => verdict.claims = {} /\ verdict.error \in {ErrJwtExpired, ErrTokenExpired}
            /\ verdict.at > exp => verdict.claims = {}

\* An untampered credential has been rejected as expired one second after its expiry.
C23_Witness ==
    \E c \in verdict.credential :
        /\ Untampered(c)
        /\ verdict.at = c.token.payload.exp + 1
        /\ verdict.error = ErrJwtExpired

\* C24: a verification of a credential whose signature is not the valid one
\* returns no claims and fails on the signature, whether or not the credential
\* has expired.
C24_SignatureBeforeExpiry ==
    \A c \in verdict.credential :
        ~Untampered(c)
        => verdict.claims = {} /\ verdict.error = ErrInvalidSignature

\* A credential that is both tampered and expired has been rejected for its signature.
C24_Witness ==
    \E c \in verdict.credential :
        /\ ~Untampered(c)
        /\ verdict.at > c.token.payload.exp
        /\ verdict.error = ErrInvalidSignature

\* C30: the process runs only with the signing secret, the webhook secret and
\* the connection string all present, and no credential is issued or verified
\* under the built-in fallback secret.
C30_NoStartWithoutSecrets ==
    /\ running
       => /\ env.JWT_SECRET_KEY # ""
          /\ env.CLERK_WEBHOOK_SECRET # ""
          /\ env.DATABASE_URL # ""
    /\ \A c \in credential \cup verdict.credential : c.secret # "default_secret"

\* ------------------------------------------------- the webhook authenticator

\* C29: a call of the authenticator with the event id, the timestamp or the
\* signature header missing, or with no shared secret configured, returns a
\* rejection without having attempted the signature verification, and the call
\* changes nothing but its own result.
C29_RejectsWithoutVerifying ==
    [][whVerdict'.called /\ env' = env
       => /\ (\/ whVerdict'.headers.svixId = ""
               \/ whVerdict'.headers.svixTimestamp = ""
               \/ whVerdict'.headers.svixSignature = ""
               \/ env.CLERK_WEBHOOK_SECRET = "")
             => ~whVerdict'.accepted /\ ~whVerdict'.verified
          /\ UNCHANGED <<now, orgActive, provVars, gateVars, env, running, credential,
                          verdict>>]_vars

\* A call with the three headers present and a good signature has been rejected
\* because no shared secret is configured.
C29_Witness ==
    /\ whVerdict.called
    /\ whVerdict.secret = ""
    /\ whVerdict.headers.svixId # "" /\ whVerdict.headers.svixTimestamp # ""
    /\ whVerdict.headers.svixSignature = "v1,good"
    /\ ~whVerdict.accepted

\* C21: validateTenantAccess answers a request whose credential has an invalid
\* signature and a request whose credential is correctly signed but expired with one
\* and the same response: status 401 and the same message.
C21_SameRejection ==
    \A r \in Reqs :
        ( /\ gpc[r] = "responded"
          /\ \/ greq[r].token.sig = "bad"
             \/ /\ greq[r].token.sig = "good"
                /\ gstart[r].at >= greq[r].token.payload.exp )
        => resp[r] = Response(401, "Invalid or expired token")

\* An answered request that presented a correctly signed credential after its expiry.
C21_Witness ==
    \E r \in Reqs :
        /\ gpc[r] = "responded"
        /\ greq[r].token.sig = "good"
        /\ gstart[r].at > greq[r].token.payload.exp
        /\ resp[r].status = 401

\* C25: every credential exchangeClerkTokenForJWT issues carries a non-empty
\* organization id, equal to the organizationId of the subject's User row; and
\* validateTenantAccess never lets through a request whose verified claims have no
\* organization id.
C25_CredentialsCarryOrganization ==
    /\ \A c \in credential :
          /\ c.token.payload.organizationId # ""
          /\ \E u \in users :
                /\ u.clerkId = c.token.payload.clerkUid
                /\ u.organizationId = c.token.payload.organizationId
    /\ \A r \in Reqs :
          "validateTenantAccess" \in nextCalls[r]
          => /\ decoded[r] # {}
             /\ \A c \in decoded[r] : c.organizationId # ""

\* The exchange has issued a credential, and a request whose verified claims have
\* no organization id has been answered 403.
C25_Witness ==
    /\ credential # {}
    /\ \E p \in Procs : outcome[p].kind = "exchanged"
    /\ \E r \in Reqs :
          /\ gpc[r] = "responded"
          /\ decoded[r] # {}
          /\ \A c \in decoded[r] : c.organizationId = ""
          /\ resp[r].status = 403

\* C26: an exchange for a subject that has no User row fails with the not-found
\* error, issues no credential and creates no User row.
C26_ExchangeWithoutRow ==
    [][ \A p \in Procs :
          ( /\ pc[p] = "exchange"
            /\ pc'[p] = "idle"
            /\ FindUserByClerkId(evt[p].id) = {} )
          => /\ outcome'[p].kind = "error"
             /\ outcome'[p].error = ErrUserNotFound
             /\ outcome'[p].ret = {}
             /\ credential' = credential
             /\ users' = users ]_vars

\* An exchange has failed with the not-found error; no subject has a row and no
\* credential has been issued.
C26_Witness ==
    \E p \in Procs :
        /\ outcome[p].kind = "error"
        /\ outcome[p].error = ErrUserNotFound
        /\ pc[p] = "idle"
        /\ users = {}
        /\ credential = {}

\* C27: a webhook delivery whose envelope is rejected is answered 401 and reaches no
\* domain logic: no service call is started and no row or flag changes.
C27_RejectedEnvelope ==
    [][ ( /\ delivered' = delivered + 1
          /\ ~whVerdict'.accepted )
        => /\ \E p \in Procs :
                /\ pc[p] = "idle"
                /\ WebhookStatus(outcome'[p]) = 401
                /\ \A q \in Procs \ {p} : outcome'[q] = outcome[q]
           /\ pc' = pc
           /\ evt' = evt
           /\ loc' = loc
           /\ users' = users
           /\ roles' = roles
           /\ orgActive' = orgActive ]_vars

\* A delivery whose signature header is missing has been answered 401 while every
\* call is idle and the tables are empty.
C27_Witness ==
    /\ ~whVerdict.accepted
    /\ whVerdict.headers.svixSignature = ""
    /\ whVerdict.headers.svixId # ""
    /\ \E p \in Procs : WebhookStatus(outcome[p]) = 401
    /\ \A p \in Procs : pc[p] = "idle"
    /\ users = {}

\* C28: a delivery of an accepted envelope whose event type the controller does not
\* handle (no service call is started for it) is answered 200 and ignored: no User,
\* Role or Organization row changes.
C28_UnknownTypeIgnored ==
    [][ ( /\ delivered' = delivered + 1
          /\ whVerdict'.accepted
          /\ pc' = pc )
        => /\ \E p \in Procs :
                /\ pc[p] = "idle"
                /\ outcome'[p].kind = "unhandled"
                /\ WebhookStatus(outcome'[p]) = 200
                /\ \A q \in Procs \ {p} : outcome'[q] = outcome[q]
           /\ evt' = evt
           /\ loc' = loc
           /\ users' = users
           /\ roles' = roles
           /\ orgActive' = orgActive ]_vars

\* A delivery of an unhandled type has been answered 200 when a user row exists.
C28_Witness ==
    /\ whVerdict.accepted
    /\ users # {}
    /\ \E p \in Procs :
          /\ outcome[p].kind = "unhandled"
          /\ WebhookStatus(outcome[p]) = 200

\* C31: every syncClerkUserToDatabase call that inserts a User inserts one with status
\* ACTIVE, email-verified true, phone-verified equal to whether the event carried a
\* phone, the organization id of the event's metadata, and as its role the Role row
\* named "employee" of that same organization.
C31_CreatedUserShape ==
    [][ \A p \in Procs :
          ( /\ pc[p] = "createUser"
            /\ pc'[p] = "idle"
            /\ users' # users )
          => \E u \in users' \ users :
                /\ users' = users \cup {u}
                /\ outcome'[p].kind = "ok"
                /\ outcome'[p].ret = {u}
                /\ u.clerkId = evt[p].id
                /\ u.status = "ACTIVE"
                /\ u.isEmailVerified
                /\ u.isPhoneVerified = (Len(evt[p].phoneNumbers) > 0)
                /\ u.organizationId = evt[p].publicMetadata.organizationId
                /\ \E r \in roles :
                      /\ r.id = u.roleId
                      /\ r.name = "employee"
                      /\ r.organizationId = u.organizationId ]_vars

\* Two rows have been inserted, one for an event with a phone and one for an event
\* without; both have the organization's one "employee" role.
C31_Witness ==
    /\ Cardinality(roles) = 1
    /\ \E u \in users, v \in users :
          /\ u.isPhoneVerified
          /\ ~v.isPhoneVerified
          /\ u.status = "ACTIVE"
          /\ v.status = "ACTIVE"
          /\ \E r \in roles : r.id = u.roleId /\ r.id = v.roleId /\ r.name = "employee"

\* The "employee" roles of organization o, active or not.
EmployeeRoles(o) == { r \in roles : r.organizationId = o /\ r.name = "employee" }

\* Whether outcome o is a violation of the Role table's unique index.
RoleUniquenessError(o) ==
    o.kind = "error" /\ "Role_organizationId_name_key" \in o.target

\* C32: an "employee" role a call has inserted stays as it is whatever becomes of the
\* call's User insert, and every later call for the organization finds and reuses it:
\* a role lookup made while the role exists goes on to the User insert with that
\* role, a call attempts the role insert only after a lookup that found no role for
\* the organization, a role uniqueness error comes only from that attempt, and the
\* organization never has a second "employee" role.
C32_LeftBehindRoleReused ==
    [][ /\ roles \subseteq roles'
        /\ \A o \in DirectoryOrgs \cup {UnknownOrg} :
              \A r1 \in roles', r2 \in roles' :
                 ( r1.organizationId = o /\ r2.organizationId = o
                   /\ r1.name = "employee" /\ r2.name = "employee" ) => r1 = r2
        /\ \A q \in Procs :
              /\ ( pc[q] = "findRole" /\ pc'[q] # "findRole"
                   /\ EmployeeRoles(loc[q].organizationId) # {} )
                 => /\ pc'[q] = "createUser"
                    /\ roles' = roles
                    /\ \E r \in EmployeeRoles(loc[q].organizationId) : loc'[q].roleId = r.id
              /\ ( pc'[q] = "createRole" /\ pc[q] # "createRole" )
                 => /\ pc[q] = "findRole"
                    /\ EmployeeRoles(loc[q].organizationId) = {}
              /\ ( RoleUniquenessError(outcome'[q]) /\ outcome'[q] # outcome[q] )
                 => pc[q] = "createRole" ]_vars

\* A call's User insert has failed on a unique index; the organization has its one
\* "employee" role, and two User rows inserted by other calls have it as their role.
C32_Witness ==
    /\ Cardinality(roles) = 1
    /\ \E p \in Procs :
          /\ pc[p] = "idle"
          /\ outcome[p].kind = "error"
          /\ outcome[p].error = ErrP2002
          /\ "User_clerkId_key" \in outcome[p].target
    /\ Cardinality(users) = 2
    /\ \A u \in users : \E r \in roles : r.id = u.roleId /\ r.name = "employee"
    /\ \A q \in Procs : ~RoleUniquenessError(outcome[q])

\* C36: when the organization's only "employee" role is inactive, the role lookup of
\* syncClerkUserToDatabase does not find it and the call goes on to insert a second
\* one; that insert violates the unique index on (organizationId, name), and the
\* call ends in that error with no User created.
C36_InactiveRoleBlocksProvisioning ==
    [][ \A p \in Procs :
          LET held == EmployeeRoles(loc[p].organizationId)
              inactiveOnly == held # {} /\ \A r \in held : ~r.isActive
          IN  /\ ( pc[p] = "findRole" /\ pc'[p] # "findRole" /\ inactiveOnly )
                 => /\ pc'[p] = "createRole"
                    /\ roles' = roles
                    /\ users' = users
              /\ ( pc[p] = "createRole" /\ pc'[p] # "createRole" /\ inactiveOnly )
                 => /\ pc'[p] = "idle"
                    /\ outcome'[p] = ThrownUnique({"Role_organizationId_name_key"})
                    /\ roles' = roles
                    /\ users' = users ]_vars

\* A call has ended in the Role uniqueness error while the organization's one
\* "employee" role is inactive and no User row exists.
C36_Witness ==
    /\ \E r \in roles : r.name = "employee" /\ ~r.isActive
    /\ users = {}
    /\ \E p \in Procs : pc[p] = "idle" /\ RoleUniquenessError(outcome[p])

\* C33: syncClerkUserToDatabase validates before it writes: the errors for a missing
\* email, a missing organization id and an unknown or inactive organization are
\* thrown from the steps up to the organization lookup, and no step of a call up to
\* and including that lookup changes the Role table or the User table.
C33_ValidationBeforeWrites ==
    [][ \A p \in Procs :
          /\ ( /\ outcome'[p] # outcome[p]
               /\ outcome'[p].kind = "error"
               /\ outcome'[p].error \in {ErrEmailRequired, ErrOrgContextRequired,
                                         ErrOrgNotFoundOrInactive} )
             => /\ pc[p] \in {"findUser", "findOrg"}
                /\ roles' = roles
                /\ users' = users
          /\ ( pc[p] \in {"idle", "findUser", "findOrg"} /\ pc'[p] # pc[p] )
             => /\ roles' = roles
                /\ users' = users ]_vars

\* A call has been rejected for an unknown or inactive organization, another for a
\* missing email or organization id, and both tables are empty.
C33_Witness ==
    /\ roles = {}
    /\ users = {}
    /\ \E p \in Procs, q \in Procs :
          /\ pc[p] = "idle"
          /\ pc[q] = "idle"
          /\ outcome[p].error = ErrOrgNotFoundOrInactive
          /\ outcome[q].error \in {ErrEmailRequired, ErrOrgContextRequired}

\* C34: TERMINATED is absorbing under webhook events: a row with status TERMINATED
\* keeps that status through every later user.created, user.updated and user.deleted
\* event, its subject never gets a second row, and a user.created delivery for its
\* subject returns the row as it is and writes nothing.
C34_TerminatedAbsorbing ==
    [][ /\ \A u \in users :
              u.status = "TERMINATED"
              => /\ \E v \in users' : v.id = u.id /\ v.clerkId = u.clerkId
                                        /\ v.status = "TERMINATED"
                 /\ \A v \in users' : v.clerkId = u.clerkId => v.id = u.id
        /\ \A p \in Procs :
              \A u \in users :
                 ( /\ pc[p] = "findUser"
                   /\ pc'[p] # "findUser"
                   /\ u.clerkId = evt[p].id
                   /\ u.status = "TERMINATED" )
                 => /\ users' = users
                    /\ pc'[p] = "idle"
                    /\ outcome'[p] = Returned({u}) ]_vars

\* A user.created delivery for a subject is at its lookup of the subject's row, and
\* that row, the subject's only one, was set to TERMINATED at an earlier instant.
C34_Witness ==
    \E p \in Procs, u \in users :
        /\ pc[p] = "findUser"
        /\ u.clerkId = evt[p].id
        /\ u.status = "TERMINATED"
        /\ u.dateOfLeaving # NoDate
        /\ u.dateOfLeaving < now
        /\ \A v \in users : v.clerkId = u.clerkId => v = u

\* C35: validateTenantAccess decides on the credential and on the organization's
\* existence and active flag alone, whatever the User table holds: a request with a
\* correctly signed, unexpired credential that names an organization reaches the
\* organization lookup, and the lookup lets it through exactly when the organization
\* exists and is active, also when the credential's user has been terminated.
C35_AdmissionIgnoresUserRow ==
    [][ \A r \in Reqs :
          /\ ( /\ started' = started + 1
               /\ greq'[r].token.sig = "good"
               /\ now < greq'[r].token.payload.exp
               /\ greq'[r].token.payload.organizationId # "" )
             => /\ gpc'[r] = "orgLookup"
                /\ resp'[r] = NoResponse
          /\ ( gpc[r] = "orgLookup" /\ gpc'[r] # "orgLookup" )
             => LET o == (CHOOSE c \in decoded[r] : TRUE).organizationId
                    live == o \in DirectoryOrgs /\ orgActive[o]
                IN  /\ live => /\ "validateTenantAccess" \in nextCalls'[r]
                               /\ resp'[r] = NoResponse
                               /\ \E u \in reqUser'[r] : u.organizationId = o
                    /\ ~live => /\ "validateTenantAccess" \notin nextCalls'[r]
                                /\ resp'[r].status = 403 ]_vars

\* A request presenting the credential the exchange issued has been let through,
\* having entered the gate after the credential's user was set to TERMINATED.
C35_Witness ==
    \E r \in Reqs, c \in credential, u \in users :
        /\ greq[r].token = c.token
        /\ "validateTenantAccess" \in nextCalls[r]
        /\ u.clerkId = c.token.payload.clerkUid
        /\ u.status = "TERMINATED"
        /\ u.dateOfLeaving # NoDate
        /\ u.dateOfLeaving < gstart[r].at
        /\ gstart[r].at < c.token.payload.exp

\* C37: validateTenantAccess fails closed: when verifyToken throws, or the
\* organization lookup throws, the request is answered 401 and next() is not called;
\* and whenever validateTenantAccess is done with a request it has done exactly one
\* of sending a response and calling next(), and neither while its lookup is pending.
C37_FailsClosed ==
    [][ \A r \in Reqs :
          LET enters == started' = started + 1
              resumes == gpc[r] = "orgLookup" /\ gpc'[r] # "orgLookup"
              responded == gpc'[r] = "responded" /\ resp'[r] # NoResponse
              passedOn == "validateTenantAccess" \in nextCalls'[r]
          IN  /\ ( /\ enters
                   /\ \/ greq'[r].token.sig = "bad"
                      \/ /\ greq'[r].token.sig = "good"
                         /\ now >= greq'[r].token.payload.exp )
                 => /\ responded
                    /\ resp'[r].status = 401
                    /\ ~passedOn
                    /\ reqUser'[r] = {}
              /\ ( resumes /\ organization'[r] = LookupThrew )
                 => /\ responded
                    /\ resp'[r].status = 401
                    /\ ~passedOn
                    /\ reqUser'[r] = {}
              /\ ( enters \/ resumes )
                 => IF gpc'[r] = "orgLookup"
                    THEN resp'[r] = NoResponse /\ ~passedOn
                    ELSE responded # passedOn
              /\ gpc'[r] = "handler"
                 => passedOn /\ resp'[r] = NoResponse ]_vars

\* The organization lookup of a request with a valid credential has thrown, and the
\* request has been answered 401 without next() being called.
C37_Witness ==
    \E r \in Reqs :
        /\ gpc[r] = "responded"
        /\ greq[r].token.sig = "good"
        /\ gstart[r].at < greq[r].token.payload.exp
        /\ organization[r] = LookupThrew
        /\ resp[r].status = 401
        /\ nextCalls[r] = {}

\* C38: handleClerkUserUpdate never fails for a missing email: for a subject that has
\* a row, an event from which no email can be resolved ends with the row's email
\* overwritten by the empty string, and when the event has no phone either, with the
\* phone overwritten by the empty string and phone-verified set to false.
C38_MissingEmailOverwrites ==
    [][ \A p \in Procs :
          \A old \in users :
             ( /\ pc[p] = "update"
               /\ pc'[p] = "idle"
               /\ old.clerkId = evt[p].id
               /\ Len(evt[p].emailAddresses) = 0 )
             => /\ outcome'[p].kind = "ok"
                /\ \E row \in users' :
                      /\ row.id = old.id
                      /\ row.email = ""
                      /\ Len(evt[p].phoneNumbers) = 0
                         => row.phone = "" /\ ~row.isPhoneVerified ]_vars

====
